---------------------------- MODULE Spec2Model ----------------------------
(***************************************************************************)
(* A model of grrshell's flow orchestration engine                         *)
(* (src/grrshell/lib/grr_shell_client.py, class GRRShellClient): the       *)
(* table of launched background flows, the worker pool that runs           *)
(* _WaitAndCompleteFlow, the status queries, ResumeFlow and the            *)
(* destructor that drains the pool.                                        *)
(*                                                                         *)
(* The foreground (the REPL thread) runs one engine operation at a time;   *)
(* the pool's workers and the remote GRR server run concurrently with it.  *)
(* An operation that calls the server or waits can be left by an exception *)
(* (Ctrl+C, a failed call), which the REPL catches.                        *)
(* A concurrent.futures.Future is PENDING from submit() until a worker     *)
(* picks it up, RUNNING while the worker executes it and FINISHED after;   *)
(* Future.running() is true only in RUNNING and Future.exception() with no *)
(* timeout waits until the future is FINISHED.                             *)
(***************************************************************************)
EXTENDS Integers, Sequences, FiniteSets, TLC

\* Number of flow ids the remote server hands out in a behaviour.
MaxFlows == 2

\* futures.ThreadPoolExecutor(max_workers=40), grr_shell_client.py:84. The
\* pool of the model is one worker short of the number of flows, so that a
\* task can be queued behind busy workers.
max_workers == MaxFlows - 1

Flows == 1..MaxFlows

VARIABLES
  remote,          \* the GRR server: flow id -> flow (name, action, state)
  keys,            \* insertion order of the keys of _launched_flows
  launched_flows,  \* _launched_flows: flow id -> _LaunchedFlow
  fgpc,            \* where the foreground thread is
  idx,             \* GetBackgroundFlowsState: position in the iteration
  rd_running,      \* GetBackgroundFlowsState: the local `running`
  resume_id,       \* ResumeFlow: the flow being waited for inline
  resume_ret,      \* ResumeFlow: what the call that just ended returned
  sync,            \* the synchronous collection in progress or just ended
  submits,         \* flow id -> number of pool submissions made for it
  with_error,      \* GetBackgroundFlowsState: flows whose line has an error
  shown,           \* flows whose error text a returned render contained
  printed,         \* flows whose error __del__ printed
  watch,           \* the flow whose status lines are recorded, 0 for none
  out,             \* GetBackgroundFlowsState: to_return's line for watch
  rendered,        \* watch's line in the last status render that returned
  monitor_flows,   \* FlowMonitor._flows: flow id -> cached flow
  no_results,      \* flows whose ListResults() _ExportFlowResults found empty
  fetched,         \* flows whose archive GetFilesArchive() fetched and unpacked
  client_os,       \* GetOS(): the operating system of the client
  infolist,        \* zip_file.infolist() of the export in progress
  nfile,           \* how many entries of infolist the loop has been through
  files,           \* the files under local_path
  dirs,            \* the directories under local_path
  export_pc,       \* where _ExportFlowResults is
  max_collect_size, \* GRRShellClient._max_collect_size
  flow_args,       \* the arguments of the flows created, in order of creation
  heap,            \* the _EmulatedFile and _EmulatedDirectory objects
  root,            \* GrrShellEmulatedFS._root
  pwd,             \* GrrShellEmulatedFS._pwd
  fs_op,           \* the last operation on the emulated filesystem
  entries,         \* Ls: the entries of the listing before they are sorted
  sortkey,         \* Ls: the argument sortkey
  ascending,       \* Ls: the argument ascending
  ls_ret,          \* Ls: the list it returned
  mutex,           \* FlowMonitor._mutex: the thread that holds it
  mon_pc,          \* where the thread of FlowMonitor._Monitor is
  mon_flow,        \* _Monitor: flow_id of the loop over _flows
  flow_keys,       \* insertion order of the keys of FlowMonitor._flows
  it_used,         \* _Monitor: the size of _flows the iterator started with
  it_pos,          \* _Monitor: the position of the iterator
  call,            \* the call of the foreground into the FlowMonitor
  handles,         \* flows whose handle the engine holds and has not tracked
  observed,        \* flow id -> the state the last read of the cache showed
  generator,       \* the generator a call of GetFlowsInfoList returned
  last_seen_at,    \* the server: data.last_seen_at of the client, in us
  seen_mutex,      \* LastSeenMonitor._mutex: the thread that holds it
  seen_pc,         \* where the thread of LastSeenMonitor._Monitor is
  last_seen,       \* LastSeenMonitor._last_seen
  seen_call,       \* where the foreground's call of GetLastSeen is
  seen_ret,        \* what the last call of GetLastSeen ended with
  refresh,         \* _RefreshTimeline: where it is, and its locals
  last_timeline_time  \* GRRShellClient.last_timeline_time

vars == <<remote, keys, launched_flows, fgpc, idx, rd_running, resume_id,
          resume_ret, sync, submits, with_error, shown, printed, watch, out,
          rendered, monitor_flows, no_results, fetched,
          client_os, infolist, nfile, files, dirs, export_pc,
          max_collect_size, flow_args, heap, root, pwd, fs_op,
          entries, sortkey, ascending, ls_ret,
          mutex, mon_pc, mon_flow, flow_keys, it_used, it_pos, call, handles,
          observed, generator,
          last_seen_at, seen_mutex, seen_pc, last_seen, seen_call, seen_ret,
          refresh, last_timeline_time>>

\* What _ExportFlowResults did on the server and under the local directory.
exported == <<no_results, fetched>>

\* _ExportFlowResults step by step, entry by entry of one archive.
unpack == <<client_os, infolist, nfile, files, dirs, export_pc>>

\* The size cap and the flow arguments it ends up in.
collect_size == <<max_collect_size, flow_args>>

\* The emulated filesystem
emulated_fs == <<heap, root, pwd, fs_op>>

\* The listing that Ls sorts
listing == <<entries, sortkey, ascending, ls_ret>>

\* The FlowMonitor, but for its cache
flow_monitor == <<mutex, mon_pc, mon_flow, flow_keys, it_used, it_pos, call,
                  handles, observed, generator>>

\* The LastSeenMonitor and the time the server has for the client
last_seen_monitor ==
  <<last_seen_at, seen_mutex, seen_pc, last_seen, seen_call, seen_ret>>

\* The refresh of the timeline by the REPL
refreshing == <<refresh, last_timeline_time>>

\* What the steps of the engine as modelled above neither read nor write.
not_engine ==
  <<monitor_flows, unpack, collect_size, emulated_fs, listing, flow_monitor,
    last_seen_monitor, refreshing>>

\* The variables of the engine.
engine == <<remote, keys, launched_flows, fgpc, idx, rd_running, resume_id,
            resume_ret, sync, submits, with_error, shown, printed, watch, out,
            rendered, monitor_flows, no_results, fetched>>

\* What the steps of _ExportFlowResults leave alone.
not_unpack ==
  <<engine, collect_size, emulated_fs, listing, flow_monitor,
    last_seen_monitor, refreshing>>

\* What SetMaxFilesize and the construction of flow arguments leave alone.
not_collect_size ==
  <<engine, unpack, emulated_fs, listing, flow_monitor,
    last_seen_monitor, refreshing>>

\* What the operations of the emulated filesystem leave alone.
not_emulated_fs ==
  <<engine, unpack, collect_size, listing, flow_monitor,
    last_seen_monitor, refreshing>>

\* What the sort of a listing leaves alone.
not_listing ==
  <<engine, unpack, collect_size, emulated_fs, flow_monitor,
    last_seen_monitor, refreshing>>

\* What the FlowMonitor and the flows on the server leave alone.
not_flow_monitor ==
  <<keys, launched_flows, fgpc, idx, rd_running, resume_id, resume_ret, sync,
    submits, with_error, shown, printed, watch, out, rendered, exported,
    unpack, collect_size, emulated_fs, listing, last_seen_monitor,
    refreshing>>

\* What the LastSeenMonitor leaves alone.
not_last_seen_monitor ==
  <<engine, unpack, collect_size, emulated_fs, listing, flow_monitor,
    refreshing>>

\* What the steps of _RefreshTimeline leave alone.
not_refreshing ==
  <<engine, unpack, collect_size, listing, flow_monitor, last_seen_monitor>>

\* The variables that record what the status renders showed of watch.
recorded == <<watch, out, rendered>>

---------------------------------------------------------------------------
\* Remote flows

NoFlow == [name |-> "none", action |-> "NA", source_type |-> "NA",
           state |-> "NA"]

FlowNames == {"ClientFileFinder", "ArtifactCollectorFlow", "GetFile",
              "TimelineFlow"}

\* flows_pb2.FileFinderAction.Action
FileFinderActions == {"STAT", "HASH", "DOWNLOAD"}

\* artifact_pb2.ArtifactSource.SourceType of the source an artifact
\* collector flow collects: one type that reads a value (a registry key) and
\* one that collects files.
ArtifactSourceTypes == {"REGISTRY_KEY", "FILE"}

\* The (name, action, source type) triples a flow on the server can have.
FlowKinds ==
  {<<"ClientFileFinder", a, "NA">> : a \in FileFinderActions}
    \cup {<<"ArtifactCollectorFlow", "NA", t>> : t \in ArtifactSourceTypes}
    \cup {<<n, "NA", "NA">> : n \in {"GetFile", "TimelineFlow"}}

\* The id CreateFlow hands out next: the server numbers flows in order.
FreeIds == {f \in Flows : remote[f] = NoFlow}
NextId == CHOOSE f \in FreeIds : \A g \in FreeIds : f <= g

\* grr_api: Flow(flow_id).Get() - a snapshot of the flow as it is now.
Get(f) == [flow_id |-> f, name |-> remote[f].name,
           action |-> remote[f].action,
           source_type |-> remote[f].source_type, state |-> remote[f].state]

_RESUMABLE_FLOW_TYPES == {"ClientFileFinder", "ArtifactCollectorFlow", "GetFile"}

\* A variant that does not look at the file finder's action: every
\* ClientFileFinder flow is asynchronous.
GetResumableFlowSyncDetailsNoAction(flow_handle) ==
  IF flow_handle.name = "GetFile"
    THEN [raises |-> "", is_synchronous |-> TRUE,
          callback |-> "_ExtractADSResults"]
  ELSE IF flow_handle.name \in {"ArtifactCollectorFlow", "ClientFileFinder"}
    THEN [raises |-> "", is_synchronous |-> FALSE, callback |-> "None"]
  ELSE [raises |-> "NotResumeableFlowTypeError", is_synchronous |-> FALSE,
        callback |-> "None"]

\* GRRShellClient._GetResumableFlowSyncDetails: is_synchronous and the
\* callback, or the NotResumeableFlowTypeError raised at its end.
GetResumableFlowSyncDetails(flow_handle) ==
  IF flow_handle.name = "GetFile"
    THEN [raises |-> "", is_synchronous |-> TRUE,
          callback |-> "_ExtractADSResults"]
  ELSE IF flow_handle.name = "ArtifactCollectorFlow"
    THEN [raises |-> "", is_synchronous |-> FALSE, callback |-> "None"]
  ELSE IF flow_handle.name = "ClientFileFinder"
    THEN IF flow_handle.action = "DOWNLOAD"
           THEN [raises |-> "", is_synchronous |-> FALSE, callback |-> "None"]
           ELSE [raises |-> "", is_synchronous |-> TRUE,
                 callback |-> "_ExtractFileFinderInfo"]
  ELSE [raises |-> "NotResumeableFlowTypeError", is_synchronous |-> FALSE,
        callback |-> "None"]

---------------------------------------------------------------------------
\* The table and the pool

Tracked == {keys[i] : i \in 1..Len(keys)}

\* _LaunchedFlow(future, flow) with exception_displayed = False; the future
\* is PENDING when submit() returns.
NewLaunchedFlow(flow_handle) ==
  [future |-> "PENDING", exception |-> "None", flow |-> flow_handle,
   exception_displayed |-> FALSE]

\* Future.running()
Running(f) == launched_flows[f].future = "RUNNING"

\* Future.done()
Done(f) == launched_flows[f].future = "FINISHED"

NoLine == [state |-> "", error_msg |-> ""]

NoRet == [flow_id |-> 0, result |-> ""]

NoSync == [op |-> "", flow_id |-> 0, hash_id |-> 0, result |-> ""]

InitEngine ==
  /\ remote = [f \in Flows |-> NoFlow]
  /\ keys = <<>>
  /\ launched_flows = <<>>
  /\ fgpc = "idle"
  /\ idx = 0
  /\ rd_running = FALSE
  /\ resume_id = 0
  /\ resume_ret = NoRet
  /\ sync = NoSync
  /\ submits = [f \in Flows |-> 0]
  /\ with_error = {}
  /\ shown = {}
  /\ printed = {}
  /\ out = NoLine
  /\ rendered = NoLine
  /\ monitor_flows = <<>>
  /\ no_results = {}
  /\ fetched = {}

----------------------------------------------------------------------------
\* GrrShellEmulatedFS. The objects of the tree are the elements of heap, a
\* reference is an index into it: _root and _pwd are references, and so are
\* the values of children. A path is the sequence of its components, the
\* root is <<>>; the rows of a feed carry the normalised absolute name and
\* the first character of mode_as_string.

MaxParts == 2
MaxRows == 2
MaxTime == 1
MaxNodes == 4

\* The names of the files and directories, in the order of a listing
NameOrder == <<"a", "b">>

FsNames == {NameOrder[i] : i \in 1..Len(NameOrder)}

\* The paths below the root, of up to MaxParts components: /a and the
\* entries of /a, of /a/a and so on.
FsPaths ==
  {path \in UNION {[1..n -> FsNames] : n \in 1..MaxParts} :
     \A i \in 1..Len(path) : i < Len(path) \/ Len(path) = 1 => path[i] = "a"}

RootPath == <<>>

\* The empty string as a name: os.path.normpath('') is '.', and so are its
\* components.
EmptyName == <<".">>

\* _TimelineRow(): name '', mode_as_string '----------'
DefaultRow == [name |-> EmptyName, mode |-> "-"]

\* The rows of the feeds: directories and files, and the row of the root
TimelineRows ==
  [name : FsPaths, mode : {"d", "-"}] \cup {[name |-> RootPath, mode |-> "d"]}

Feeds == UNION {[1..n -> TimelineRows] : n \in 0..MaxRows}

Times == 1..MaxTime

\* _EmulatedDirectory(name, stats, {}, timeline_time)
EmulatedDirectory(filename, stats, timeline_time) ==
  [dir |-> TRUE, filename |-> filename, stats |-> stats, children |-> <<>>,
   timeline_time |-> timeline_time]

\* _EmulatedFile(name, stats): it has neither children nor timeline_time.
EmulatedFile(filename, stats) ==
  [dir |-> FALSE, filename |-> filename, stats |-> stats, children |-> <<>>,
   timeline_time |-> 0]

\* fs_entry of _AddRowToEmulatedFS
FsEntry(row, timeline_time) ==
  IF row.mode = "d"
    THEN EmulatedDirectory(row.name[Len(row.name)], row, timeline_time)
    ELSE EmulatedFile(row.name[Len(row.name)], row)

\* children[part] = node
Put(children, part, node) ==
  [p \in DOMAIN children \cup {part} |->
     IF p = part THEN node ELSE children[p]]

\* children.pop(part)
Pop(children, part) ==
  [p \in DOMAIN children \ {part} |-> children[p]]

\* The references in children, in the order of the names
ChildRefs(node) ==
  LET present == SelectSeq(NameOrder, LAMBDA p : p \in DOMAIN node.children)
  IN [i \in 1..Len(present) |-> node.children[present[i]]]

\* The objects that can be reached from the references todo, each once, in
\* the order a walk from them finds them.
RECURSIVE Reachable(_, _, _)
Reachable(h, todo, seen) ==
  IF todo = <<>> THEN seen
  ELSE IF \E i \in 1..Len(seen) : seen[i] = Head(todo)
    THEN Reachable(h, Tail(todo), seen)
  ELSE Reachable(h, ChildRefs(h[Head(todo)]) \o Tail(todo),
                 Append(seen, Head(todo)))

\* A reference is told from another one by the object it leads to and by
\* nothing else, and an object that neither _root nor _pwd leads to is
\* gone: the objects in use are kept, numbered in the order of the walk
\* from _root and _pwd.
Numbered(h, r, p, order) ==
  LET ref(n) == CHOOSE i \in 1..Len(order) : order[i] = n
  IN [heap |-> [i \in 1..Len(order) |->
                  [h[order[i]] EXCEPT
                     !.children = [q \in DOMAIN @ |-> ref(@[q])]]],
      root |-> ref(r),
      pwd |-> ref(p)]

InUse(h, r, p) == Numbered(h, r, p, Reachable(h, <<r, p>>, <<>>))

\* path_part in current_ptr.children
HasChild(node, part) == part \in DOMAIN node.children

\* A variant that takes the stats of every node for those of a placeholder.
HasPlaceholderStatsAlways(stats) == TRUE

\* current_ptr.stats == _TimelineRow()
HasPlaceholderStats(stats) == stats = DefaultRow

\* The loop of _AddRowToEmulatedFS over path_parts, from part i on, and the
\* statement after it. entry is the reference of fs_entry once the loop has
\* put it into the tree, 0 before. A file has no attribute children.
RECURSIVE AddParts(_, _, _, _, _, _)
AddParts(h, current_ptr, entry, i, row, timeline_time) ==
  LET path_parts == row.name
      last_part == path_parts[Len(path_parts)]
      new == Len(h) + 1
  IN IF i > Len(path_parts)
       THEN [heap |-> IF HasPlaceholderStats(h[current_ptr].stats)
                        THEN [h EXCEPT ![current_ptr].stats = row]
                        ELSE h,
             err |-> "None"]
     ELSE IF ~h[current_ptr].dir
       THEN [heap |-> h, err |-> "AttributeError"]
     ELSE IF HasChild(h[current_ptr], path_parts[i])
       THEN AddParts(h, h[current_ptr].children[path_parts[i]], entry, i + 1,
                     row, timeline_time)
     ELSE IF path_parts[i] = last_part
       THEN IF entry = 0
              THEN AddParts(
                     Append([h EXCEPT ![current_ptr].children =
                                        Put(@, path_parts[i], new)],
                            FsEntry(row, timeline_time)),
                     new, new, i + 1, row, timeline_time)
              ELSE AddParts([h EXCEPT ![current_ptr].children =
                                        Put(@, path_parts[i], entry)],
                            entry, entry, i + 1, row, timeline_time)
     ELSE AddParts(
            Append([h EXCEPT ![current_ptr].children =
                               Put(@, path_parts[i], new)],
                   EmulatedDirectory(path_parts[i], DefaultRow, timeline_time)),
            new, entry, i + 1, row, timeline_time)

\* A variant that adds the time of the feed to the time of the root.
RootTimeAdded(old, timeline_time) == old + timeline_time

\* self._root.timeline_time = timeline_time
RootTime(old, timeline_time) == timeline_time

\* _AddRowToEmulatedFS(row, timeline_time)
AddRowToEmulatedFS(h, r, row, timeline_time) ==
  IF row.name = RootPath
    THEN [heap |-> [h EXCEPT ![r].stats = row,
                             ![r].timeline_time = RootTime(@, timeline_time)],
          err |-> "None"]
    ELSE AddParts(h, r, 0, 1, row, timeline_time)

\* The loop of ParseTimelineFlow over the rows, from row i on; an exception
\* ends it.
RECURSIVE AddRows(_, _, _, _, _)
AddRows(h, r, timeline_data, i, timeline_time) ==
  IF i > Len(timeline_data) THEN [heap |-> h, err |-> "None"]
  ELSE LET added == AddRowToEmulatedFS(h, r, timeline_data[i], timeline_time)
       IN IF added.err # "None" THEN added
          ELSE AddRows(added.heap, r, timeline_data, i + 1, timeline_time)

\* _ResolveRemotePathToEmulatedFS: the loop over parts, from part i on
RECURSIVE ResolveParts(_, _, _, _)
ResolveParts(h, current_ptr, parts, i) ==
  IF i > Len(parts) THEN [err |-> "None", node |-> current_ptr]
  ELSE IF ~h[current_ptr].dir THEN [err |-> "AttributeError", node |-> 0]
  ELSE IF parts[i] \notin DOMAIN h[current_ptr].children
    THEN [err |-> "InvalidRemotePathError", node |-> 0]
  ELSE ResolveParts(h, h[current_ptr].children[parts[i]], parts, i + 1)

\* _ResolveRemotePathToEmulatedFS(remote_path)
ResolveRemotePathToEmulatedFS(h, r, remote_path) ==
  ResolveParts(h, r, remote_path, 1)

\* RemotePathExists(path, dirs_only): what it returns, or the exception that
\* leaves it. Only InvalidRemotePathError is caught.
RemotePathExists(h, r, path, dirs_only) ==
  LET path_entry == ResolveRemotePathToEmulatedFS(h, r, path)
  IN IF path_entry.err = "InvalidRemotePathError" THEN "False"
     ELSE IF path_entry.err # "None" THEN path_entry.err
     ELSE IF dirs_only /\ ~h[path_entry.node].dir THEN "False"
     ELSE "True"

\* GetPWD(): self._pwd.stats.name if self._pwd.stats.name else '/'
GetPWD(h, p) ==
  IF h[p].stats.name = EmptyName THEN RootPath ELSE h[p].stats.name

\* os.path.dirname of a stats name
Dirname(name) ==
  IF name = EmptyName \/ name = RootPath THEN name
  ELSE SubSeq(name, 1, Len(name) - 1)

\* A path as a caller writes it: whether it starts with '/', and its
\* components, '..' among them; '' is the relative path without components.
PathParts == FsNames \cup {".."}

Paths ==
  [abs : BOOLEAN, parts : UNION {[1..n -> PathParts] : n \in 0..MaxParts}]

\* The normalised absolute paths as a caller writes them
AbsolutePaths ==
  {[abs |-> TRUE, parts |-> path] : path \in FsPaths \cup {RootPath}}

\* os.path.normpath of an absolute path, from component i on: '..' drops
\* the component before it and is dropped at the root.
RECURSIVE Normpath(_, _, _)
Normpath(parts, i, done) ==
  IF i > Len(parts) THEN done
  ELSE IF parts[i] = ".."
    THEN Normpath(parts, i + 1,
                  IF done = <<>> THEN done ELSE SubSeq(done, 1, Len(done) - 1))
  ELSE Normpath(parts, i + 1, Append(done, parts[i]))

\* NormaliseFSPath(path)
NormaliseFSPath(h, p, path) ==
  IF ~path.abs /\ path.parts = <<>> THEN RootPath
  ELSE IF path.abs THEN Normpath(path.parts, 1, <<>>)
  ELSE Normpath(GetPWD(h, p) \o path.parts, 1, <<>>)

\* The end of ParseTimelineFlow: `if not self.RemotePathExists(
\* self.GetPWD(), dirs_only=True): self._pwd = self._root`, unless an
\* exception has ended the loop over the rows, or ends the check.
CheckPWD(added, r, p, exists) ==
  [heap |-> added.heap, root |-> r,
   pwd |-> IF added.err = "None" /\ exists = "False" THEN r ELSE p,
   err |-> IF added.err # "None" THEN added.err
           ELSE IF exists \notin {"True", "False"} THEN exists
           ELSE "None"]

\* What is in use of a result
Kept(result) ==
  [err |-> result.err] @@ InUse(result.heap, result.root, result.pwd)

\* The rows are added, then the working directory is checked.
Parsed(added, r, p) ==
  Kept(CheckPWD(added, r, p,
                RemotePathExists(added.heap, r, GetPWD(added.heap, p), TRUE)))

\* ParseTimelineFlow(timeline_data, timeline_time): the objects, the
\* working directory and the exception it ends with.
ParseTimelineFlowResult(h, r, p, timeline_data, timeline_time) ==
  Parsed(AddRows(h, r, timeline_data, 1, timeline_time), r, p)

\* ClearPath(remote_path, timeline_time) for a path other than '/': the
\* objects and the exception it ends with. InvalidRemotePathError is passed
\* over, wherever it comes from; what was written before it stays.
PopNode(h, h1, node, parent) ==
  IF node.err = "InvalidRemotePathError" THEN [heap |-> h, err |-> "None"]
  ELSE IF node.err # "None" THEN [heap |-> h, err |-> node.err]
  ELSE IF parent.err = "InvalidRemotePathError"
    THEN [heap |-> h1, err |-> "None"]
  ELSE IF parent.err # "None" THEN [heap |-> h1, err |-> parent.err]
  ELSE IF ~h1[parent.node].dir
    THEN [heap |-> h1, err |-> "AttributeError"]
  ELSE IF h1[node.node].filename \notin DOMAIN h1[parent.node].children
    THEN [heap |-> h1, err |-> "KeyError"]
  ELSE [heap |-> [h1 EXCEPT ![parent.node].children =
                              Pop(@, h1[node.node].filename)],
        err |-> "None"]

\* node.timeline_time = timeline_time, then the parent is resolved from
\* os.path.dirname(node.stats.name).
ParentOf(h, r, node, timeline_time) ==
  IF node.err # "None" THEN node
  ELSE ResolveRemotePathToEmulatedFS(
         [h EXCEPT ![node.node].timeline_time = timeline_time], r,
         Dirname(h[node.node].stats.name))

TimeSet(h, node, timeline_time) ==
  IF node.err # "None" THEN h
  ELSE [h EXCEPT ![node.node].timeline_time = timeline_time]

ClearFound(h, r, node, timeline_time) ==
  PopNode(h, TimeSet(h, node, timeline_time), node,
          ParentOf(h, r, node, timeline_time))

ClearNode(h, r, remote_path, timeline_time) ==
  ClearFound(h, r, ResolveRemotePathToEmulatedFS(h, r, remote_path),
             timeline_time)

\* ClearPath(remote_path, timeline_time): '/' gets a new, empty root.
ClearPathResult(h, r, p, remote_path, timeline_time) ==
  Kept(IF remote_path = RootPath
         THEN [heap |-> Append(h, EmulatedDirectory("/", DefaultRow,
                                                    timeline_time)),
               root |-> Len(h) + 1, pwd |-> p, err |-> "None"]
         ELSE [root |-> r, pwd |-> p]
              @@ ClearNode(h, r, remote_path, timeline_time))

\* The last operation on the emulated filesystem: its arguments, whether
\* its path resolved when it was called, and what it returned or raised.
NoOp == [op |-> "", path |-> RootPath, t |-> 0, found |-> FALSE, ret |-> ""]

\* GrrShellEmulatedFS(os_type): the root, which is the working directory
InitFS ==
  /\ heap = <<EmulatedDirectory("/", DefaultRow, 0)>>
  /\ root = 1
  /\ pwd = 1
  /\ fs_op = NoOp

----------------------------------------------------------------------------
\* GrrShellEmulatedFS.Ls: the order of a listing. entries is the list Ls
\* has built before it sorts: the '.' entry of a directory first, then its
\* children in the order of the dict, less what a glob has filtered out; or
\* the one entry of a file.

MaxEntries == 3
MaxStat == 1

\* The names of the entries, in the order of str: '.' is before the letters
LsNameOrder == <<".">> \o NameOrder

\* _LSEntry: mode_as_string by its first character, the size, the mtime and
\* the name (uid and gid are shown and take no part in the order).
LSEntries ==
  [mode_as_string : {"d", "-"}, size : 0..MaxStat, mtime : 0..MaxStat,
   name : {LsNameOrder[i] : i \in 1..Len(LsNameOrder)}]

Listings ==
  {l \in UNION {[1..n -> LSEntries] : n \in 1..MaxEntries} :
     /\ \A i \in 2..Len(l) : l[i].name # "."
     /\ \A i, j \in 1..Len(l) : i # j => l[i].name # l[j].name}

\* The keys of _LS_SORT_KEY_MAP, and "None" for every other sortkey, for
\* which _LS_SORT_KEY_MAP.get() is None.
SortKeys == {"None", "S", "t"}

\* self.name < other.name
NameLt(name, other) ==
  \E i, j \in 1..Len(LsNameOrder) :
    i < j /\ LsNameOrder[i] = name /\ LsNameOrder[j] = other

\* _LSEntry.__lt__
LSEntryLt(self, other) ==
  IF (self.mode_as_string = "d") # (other.mode_as_string = "d")
    THEN self.mode_as_string = "d"
    ELSE NameLt(self.name, other.name)

\* The comparison sorted() makes: of the keys, of the entries without a key
KeyLt(key, l, r) ==
  CASE key = "S" -> l.size < r.size
    [] key = "t" -> l.mtime < r.mtime
    [] OTHER -> LSEntryLt(l, r)

\* sorted() is stable: an entry goes before the first one it is less than.
Insert(done, e, key) ==
  LET before == {i \in 1..Len(done) :
                   \A j \in 1..i : ~KeyLt(key, e, done[j])}
  IN SubSeq(done, 1, Cardinality(before)) \o <<e>>
       \o SubSeq(done, Cardinality(before) + 1, Len(done))

RECURSIVE Sort(_, _, _, _)
Sort(list, i, done, key) ==
  IF i > Len(list) THEN done
  ELSE Sort(list, i + 1, Insert(done, list[i], key), key)

Reversed(list) == [i \in 1..Len(list) |-> list[Len(list) + 1 - i]]

\* sorted(list, key=..., reverse=...): with reverse the order of the entries
\* that compare equal is kept as well, as if the list were turned around
\* before the sort and after it.
Sorted(list, key, reverse) ==
  IF reverse THEN Reversed(Sort(Reversed(list), 1, <<>>, key))
  ELSE Sort(list, 1, <<>>, key)

\* No listing has been asked for.
InitListing ==
  /\ entries = <<>>
  /\ sortkey = "None"
  /\ ascending = TRUE
  /\ ls_ret = <<>>

----------------------------------------------------------------------------
\* client_monitors.FlowMonitor. The monitor thread runs _Monitor, the
\* foreground thread calls GetFlow, TrackFlow and GetFlowsInfoList, one call
\* at a time. A step is one access to what the threads share. _mutex is a
\* threading.Lock: acquiring it waits until it is free. A remote call takes
\* time: the thread is in it for one state and gets its answer in the step
\* that leaves it. The flows all have arguments of a known type, so that
\* `not data.args.TypeName()` is false.

\* self._flows[flow_id] = flow_handle; a new key goes to the end of the dict
SetFlow(flows, f, flow_handle) ==
  [g \in DOMAIN flows \cup {f} |-> IF g = f THEN flow_handle ELSE flows[g]]

SetKey(order, f) ==
  IF \E i \in 1..Len(order) : order[i] = f THEN order ELSE Append(order, f)

\* The handle the engine holds from the creation of the flow f
ScheduledHandle(f) == [Get(f) EXCEPT !.state = "RUNNING"]

\* The condition of _UpdateCachedFlow, read without the lock
Stale(f) ==
  \/ f \notin DOMAIN monitor_flows
  \/ monitor_flows[f].state = "RUNNING"

NoCall == [op |-> "", pc |-> "", flow_id |-> 0]

\* No generator of GetFlowsInfoList is alive
NoGenerator == [pc |-> "none", values |-> <<>>, pos |-> 0]

\* The monitors of a session that has not started them
InitFlowMonitor ==
  /\ mutex = "free"
  /\ mon_pc = "off"
  /\ mon_flow = 0
  /\ flow_keys = <<>>
  /\ it_used = 0
  /\ it_pos = 0
  /\ call = NoCall
  /\ handles = {}
  /\ observed = [f \in Flows |-> ""]
  /\ generator = NoGenerator

\* client_monitors.LastSeenMonitor. The server keeps data.last_seen_at, the
\* time of the client's last check-in, in microseconds since the epoch.
MaxSeen == 2

\* The first check-in and the time between two of them, in microseconds
FirstSeen == 1500000
SeenStep == 700000

\* datetime.datetime.fromtimestamp(us / 1000000, tz=utc), as the seconds
\* and the microseconds of the datetime
FromTimestamp(us) == [sec |-> us \div 1000000, usec |-> us % 1000000]

\* self._last_seen is declared in __init__ and has no value until a fetch
NoAttribute == [sec |-> -1, usec |-> 0]

NoReturn == [raised |-> "", value |-> NoAttribute]

\* A LastSeenMonitor that has not been started
InitLastSeenMonitor ==
  /\ last_seen_at = FirstSeen
  /\ seen_mutex = "free"
  /\ seen_pc = "off"
  /\ last_seen = NoAttribute
  /\ seen_call = "idle"
  /\ seen_ret = NoReturn

\* grr_shell_repl._RefreshTimeline and GRRShellClient.last_timeline_time
NoRefresh ==
  [pc |-> "idle", path |-> RootPath, collected |-> "", stamp |-> 0]

\* No refresh is in progress, no timeline has been collected.
InitRefresh ==
  /\ refresh = NoRefresh
  /\ last_timeline_time = 0

----------------------------------------------------------------------------
\* No export has been started, local_path is empty.
InitUnpack ==
  /\ infolist = <<>>
  /\ nfile = 0
  /\ files = {}
  /\ dirs = {}
  /\ export_pc = "idle"

\* No size cap is configured, no flow arguments have been built.
InitCollectSize ==
  /\ max_collect_size = 0
  /\ flow_args = <<>>

\* The rest of the program as the engine of a session on a Windows client
\* finds it.
InitRest ==
  /\ client_os = "Windows"
  /\ InitUnpack
  /\ InitCollectSize
  /\ InitFS
  /\ InitListing
  /\ InitFlowMonitor
  /\ InitLastSeenMonitor
  /\ InitRefresh

Init == InitEngine /\ watch = 0 /\ InitRest

\* The same program with the status lines of one flow, any one, recorded.
InitWatch == InitEngine /\ watch \in Flows /\ InitRest

---------------------------------------------------------------------------
\* The remote server and the other users of it

\* A flow started on the client outside this session (another session, the
\* GRR UI): ResumeFlow can reattach to it.
ExternalCreateFlow ==
  /\ FreeIds # {}
  /\ \E k \in FlowKinds :
       remote' = [remote EXCEPT ![NextId] =
                    [name |-> k[1], action |-> k[2], source_type |-> k[3],
                     state |-> "RUNNING"]]
  /\ UNCHANGED <<keys, launched_flows, fgpc, idx, rd_running, resume_id, resume_ret, sync,
                 submits, with_error, shown, printed, recorded>>
  /\ UNCHANGED <<not_engine, exported>>

\* The remote side ends a flow: RUNNING -> TERMINATED or ERROR, both final.
RemoteFinish(f) ==
  /\ remote[f].state = "RUNNING"
  /\ \E s \in {"TERMINATED", "ERROR"} :
       remote' = [remote EXCEPT ![f].state = s]
  /\ UNCHANGED <<keys, launched_flows, fgpc, idx, rd_running, resume_id, resume_ret, sync,
                 submits, with_error, shown, printed, recorded>>
  /\ UNCHANGED <<not_engine, exported>>

---------------------------------------------------------------------------
\* The worker pool

\* A variant of the pool that starts a thread for every submission.
WorkerFreeAlways == TRUE

\* ThreadPoolExecutor(max_workers=...): a queued task is taken only by one
\* of the max_workers threads, each of which executes one task at a time.
WorkerFree == Cardinality({g \in Tracked : Running(g)}) < max_workers

\* A worker takes the task off the queue: _WorkItem.run() marks the future
\* RUNNING. At most max_workers tasks execute at once.
WorkerStart(f) ==
  /\ f \in Tracked
  /\ launched_flows[f].future = "PENDING"
  /\ WorkerFree
  /\ launched_flows' = [launched_flows EXCEPT ![f].future = "RUNNING"]
  /\ UNCHANGED <<remote, keys, fgpc, idx, rd_running, resume_id, resume_ret, sync,
                 submits, with_error, shown, printed, recorded>>
  /\ UNCHANGED <<not_engine, exported>>

\* The exception _WaitAndCompleteFlow ends with: WaitUntilDone() raises
\* FlowFailedError for a flow that ended in ERROR, _ExportFlowResults raises
\* InvalidRemotePathError for a flow without results.
TaskException(flow_state, has_results) ==
  IF flow_state = "ERROR" THEN "FlowFailedError"
  ELSE IF ~has_results THEN "InvalidRemotePathError"
  ELSE "None"

\* A variant that downloads the archive before it looks at the results.
ArchiveFetchedFirst(has_results) == TRUE

\* _ExportFlowResults goes on to GetFilesArchive() and to the extraction
\* only past the check of ListResults().
ArchiveFetched(has_results) == has_results

\* list(ff_flow.ListResults()) is non-empty or empty; the results of a flow
\* that has ended do not change from one listing to the next.
ListResults(f) ==
  {has_results \in BOOLEAN : /\ f \in no_results => ~has_results
                             /\ f \in fetched => has_results}

\* _ExportFlowResults: raises InvalidRemotePathError for a flow without
\* results, else fetches the archive and unpacks it under local_path.
ExportFlowResults(f, has_results) ==
  /\ no_results' = IF has_results THEN no_results ELSE no_results \cup {f}
  /\ fetched' = IF ArchiveFetched(has_results) THEN fetched \cup {f}
                ELSE fetched

\* _WaitAndCompleteFlow: WaitUntilDone() returns once the remote flow has
\* left RUNNING; the future keeps the exception the task ends with.
WaitAndCompleteFlow(f) ==
  /\ f \in Tracked
  /\ Running(f)
  /\ remote[f].state # "RUNNING"
  /\ \E has_results \in ListResults(f) :
       /\ launched_flows' = [launched_flows EXCEPT
            ![f].future = "FINISHED",
            ![f].exception = TaskException(remote[f].state, has_results)]
       /\ IF remote[f].state = "ERROR" THEN UNCHANGED exported
          ELSE ExportFlowResults(f, has_results)
  /\ UNCHANGED <<remote, keys, fgpc, idx, rd_running, resume_id, resume_ret, sync,
                 submits, with_error, shown, printed, recorded>>
  /\ UNCHANGED not_engine

---------------------------------------------------------------------------
\* Background launches. Every foreground operation starts with the
\* foreground idle.

\* A variant that rebuilds the table around the new record:
\* _launched_flows = {flow_handle.flow_id: _LaunchedFlow(future, flow_handle)}
SubmitForgetting(flow_handle) ==
  /\ submits' = [submits EXCEPT ![flow_handle.flow_id] = @ + 1]
  /\ launched_flows' =
       [f \in {flow_handle.flow_id} |-> NewLaunchedFlow(flow_handle)]
  /\ keys' = <<flow_handle.flow_id>>

\* pool.submit(_WaitAndCompleteFlow, flow_handle, local_path) followed by
\* _launched_flows[flow_handle.flow_id] = _LaunchedFlow(future, flow_handle)
Submit(flow_handle) ==
  /\ submits' = [submits EXCEPT ![flow_handle.flow_id] = @ + 1]
  /\ launched_flows' =
       [f \in Tracked \cup {flow_handle.flow_id} |->
          IF f = flow_handle.flow_id THEN NewLaunchedFlow(flow_handle)
          ELSE launched_flows[f]]
  /\ keys' = IF flow_handle.flow_id \in Tracked THEN keys
             ELSE Append(keys, flow_handle.flow_id)

\* _CreateFileFinderFlow / _CreateArtifactCollectorFlow: CreateFlow on the
\* server returns the handle of a new RUNNING flow.
CreateFlow(name, action, source_type) ==
  /\ FreeIds # {}
  /\ remote' = [remote EXCEPT ![NextId] =
                  [name |-> name, action |-> action,
                   source_type |-> source_type, state |-> "RUNNING"]]

CreatedHandle(name, action, source_type) ==
  [flow_id |-> NextId, name |-> name, action |-> action,
   source_type |-> source_type, state |-> "RUNNING"]

CollectFilesInBackground ==
  /\ fgpc = "idle"
  /\ CreateFlow("ClientFileFinder", "DOWNLOAD", "NA")
  /\ Submit(CreatedHandle("ClientFileFinder", "DOWNLOAD", "NA"))
  /\ UNCHANGED <<fgpc, idx, rd_running, resume_id, resume_ret, sync, with_error, shown,
                 printed, recorded>>
  /\ UNCHANGED <<not_engine, exported>>

\* The artifact named decides the type of the source the flow collects.
CollectArtifactInBackground ==
  /\ fgpc = "idle"
  /\ \E source_type \in ArtifactSourceTypes :
       /\ CreateFlow("ArtifactCollectorFlow", "NA", source_type)
       /\ Submit(CreatedHandle("ArtifactCollectorFlow", "NA", source_type))
  /\ UNCHANGED <<fgpc, idx, rd_running, resume_id, resume_ret, sync, with_error, shown,
                 printed, recorded>>
  /\ UNCHANGED <<not_engine, exported>>

---------------------------------------------------------------------------
\* Status queries

\* What GetRunningFlowCount returns: the number of futures that are
\* running, and len(self._launched_flows).
RunningFlowCount ==
  <<Cardinality({f \in DOMAIN launched_flows : Running(f)}),
    Cardinality(DOMAIN launched_flows)>>

\* GetRunningFlowCount reads the table and the futures and writes nothing.
GetRunningFlowCount ==
  /\ fgpc = "idle"
  /\ UNCHANGED vars

\* GetBackgroundFlowsState: `if not self._launched_flows: return 'No
\* launched flows'`, else the loop over the table starts.
GetBackgroundFlowsState ==
  /\ fgpc = "idle"
  /\ IF keys = <<>>
       THEN UNCHANGED <<fgpc, idx>>
       ELSE /\ fgpc' = "render_state"
            /\ idx' = 1
  /\ UNCHANGED <<remote, keys, launched_flows, rd_running, resume_id, resume_ret, sync,
                 submits, with_error, shown, printed, recorded>>
  /\ UNCHANGED <<not_engine, exported>>

\* The flow handle after "refresh flow state if last known state was
\* RUNNING": bg_flow.flow = bg_flow.flow.Get()
Refreshed(flow_handle) ==
  IF flow_handle.state = "RUNNING" THEN Get(flow_handle.flow_id)
  ELSE flow_handle

\* The three-way state: DOWNLOADING / COMPLETE for a TERMINATED flow, else
\* the name of the flow's state.
DerivedState(flow_state, running) ==
  IF flow_state = "TERMINATED"
    THEN IF running THEN "DOWNLOADING" ELSE "COMPLETE"
    ELSE flow_state

\* The loop body up to `state`: running = bg_flow.future.running(), the
\* refresh and the derived state. Only the foreground writes bg_flow.flow;
\* what the pool does between running() and Get() it can as well do after
\* Get(), and the end of the remote flow that Get() sees it can as well have
\* come before running(), so the three are one step.
RenderState ==
  /\ fgpc = "render_state"
  /\ LET f == keys[idx]
         running == Running(f)
         flow_handle == Refreshed(launched_flows[f].flow)
     IN /\ rd_running' = running
        /\ launched_flows' = [launched_flows EXCEPT ![f].flow = flow_handle]
        /\ out' = IF f = watch
                    THEN [state |-> DerivedState(flow_handle.state, running),
                          error_msg |-> ""]
                    ELSE out
  /\ fgpc' = "render_exception"
  /\ UNCHANGED <<remote, keys, idx, resume_id, resume_ret, sync, submits, with_error, shown,
                 printed, watch, rendered>>
  /\ UNCHANGED <<not_engine, exported>>

\* A variant that does not wait: exception(timeout=0) with the TimeoutError
\* swallowed.
ExceptionReturnsAtOnce(f) == TRUE

\* Future.exception() with no timeout returns once the future is finished.
ExceptionReturns(f) == Done(f)

\* `not running and bg_flow.future.exception()`: exception() is evaluated
\* only when running is false.
ExceptionCallReturns(f, running) == running \/ ExceptionReturns(f)

\* error_msg of the line, "" when there is none
ErrorMsg(f, running) ==
  IF ~running /\ launched_flows[f].exception # "None"
    THEN launched_flows[f].exception
    ELSE ""

\* bg_flow.exception_displayed after the line has been built
DisplayedAfterRender(f, running) ==
  IF ErrorMsg(f, running) # "" THEN TRUE
  ELSE launched_flows[f].exception_displayed

\* The rest of the loop body, from the exception() call, and after the last
\* flow: return '\n'.join(to_return).
RenderException ==
  /\ fgpc = "render_exception"
  /\ LET f == keys[idx]
         line == IF f = watch
                   THEN [out EXCEPT !.error_msg = ErrorMsg(f, rd_running)]
                   ELSE out
         errors == IF ErrorMsg(f, rd_running) # ""
                     THEN with_error \cup {f} ELSE with_error
     IN /\ ExceptionCallReturns(f, rd_running)
        /\ launched_flows' = [launched_flows EXCEPT ![f].exception_displayed =
                                DisplayedAfterRender(f, rd_running)]
        /\ IF idx < Len(keys)
             THEN /\ idx' = idx + 1
                  /\ fgpc' = "render_state"
                  /\ out' = line
                  /\ with_error' = errors
                  /\ UNCHANGED <<rendered, shown>>
             ELSE /\ idx' = 0
                  /\ fgpc' = "idle"
                  /\ out' = NoLine
                  /\ with_error' = {}
                  /\ rendered' = line
                  /\ shown' = shown \cup errors
  /\ rd_running' = FALSE
  /\ UNCHANGED <<remote, keys, resume_id, resume_ret, sync, submits, printed, watch>>
  /\ UNCHANGED <<not_engine, exported>>

---------------------------------------------------------------------------
\* ResumeFlow

\* flow_handle.data.name not in _RESUMABLE_FLOW_TYPES
NotResumable(flow_handle) == flow_handle.name \notin _RESUMABLE_FLOW_TYPES

\* A variant without the membership test.
AlreadyTrackedNever(flow_handle) == FALSE

\* flow_handle.flow_id in self._launched_flows
AlreadyTracked(flow_handle) == flow_handle.flow_id \in DOMAIN launched_flows

\* A variant without either type check: a flow of any other type is queued.
ResumeFlowResultUnchecked(flow_id) ==
  LET flow_handle == Get(flow_id)
      details == GetResumableFlowSyncDetails(flow_handle)
  IN IF AlreadyTracked(flow_handle) THEN "already tracked"
     ELSE IF details.is_synchronous THEN "WaitUntilDone"
     ELSE "Queued"

\* What ResumeFlow(flow_id) does after flow_handle = ...Flow(flow_id).Get():
\* the error it raises, the report it returns, or "WaitUntilDone" when it
\* goes on to wait for the flow inline.
ResumeFlowResult(flow_id) ==
  LET flow_handle == Get(flow_id)
      details == GetResumableFlowSyncDetails(flow_handle)
  IN IF NotResumable(flow_handle) THEN "NotResumeableFlowTypeError"
     ELSE IF AlreadyTracked(flow_handle) THEN "already tracked"
     ELSE IF details.raises # "" THEN details.raises
     ELSE IF details.is_synchronous THEN "WaitUntilDone"
     ELSE "Queued"

ResumeFlow(flow_id) ==
  /\ fgpc = "idle"
  /\ remote[flow_id] # NoFlow
  /\ LET result == ResumeFlowResult(flow_id)
     IN IF result = "WaitUntilDone"
          THEN /\ resume_id' = flow_id
               /\ fgpc' = "resume_wait"
               /\ UNCHANGED <<keys, launched_flows, submits, resume_ret, sync>>
        ELSE /\ fgpc' = "resume_returned"
             /\ resume_ret' = [flow_id |-> flow_id, result |-> result]
             /\ UNCHANGED <<resume_id, sync>>
             /\ IF result = "Queued"
                  THEN Submit(Get(flow_id))
                  ELSE UNCHANGED <<keys, launched_flows, submits>>
  /\ UNCHANGED <<remote, idx, rd_running, with_error, shown, printed,
                 recorded>>
  /\ UNCHANGED <<not_engine, exported>>

\* What the inline wait ends with: WaitUntilDone() raises FlowFailedError
\* for a flow in ERROR, else the lines of callback(flow_handle) are returned.
ResumeWaitResult(flow_id) ==
  IF remote[flow_id].state = "ERROR" THEN "FlowFailedError"
  ELSE GetResumableFlowSyncDetails(Get(flow_id)).callback

\* WaitUntilDone() returns once the flow has left RUNNING.
ResumeWait ==
  /\ fgpc = "resume_wait"
  /\ remote[resume_id].state # "RUNNING"
  /\ resume_ret' = [flow_id |-> resume_id,
                    result |-> ResumeWaitResult(resume_id)]
  /\ resume_id' = 0
  /\ fgpc' = "resume_returned"
  /\ UNCHANGED <<remote, keys, launched_flows, idx, rd_running, sync, submits,
                 with_error, shown, printed, recorded>>
  /\ UNCHANGED <<not_engine, exported>>

\* The caller has the result (GRRShellREPL._Resume prints the lines or the
\* error) and goes on to its next command.
ResumeReturned ==
  /\ fgpc = "resume_returned"
  /\ fgpc' = "idle"
  /\ resume_ret' = NoRet
  /\ UNCHANGED <<remote, keys, launched_flows, idx, rd_running, resume_id,
                 sync, submits, with_error, shown, printed, recorded>>
  /\ UNCHANGED <<not_engine, exported>>

---------------------------------------------------------------------------
\* Synchronous collections: the foreground creates the flow and waits for it
\* inline. None of them touches _launched_flows or the pool.

\* The second free id: FileInfo with collect_ads creates two flows.
SecondId == CHOOSE f \in FreeIds \ {NextId} :
              \A g \in FreeIds \ {NextId} : f <= g

\* The steps that leave the engine's table and the recorded lines alone.
SyncUnchanged ==
  UNCHANGED <<keys, launched_flows, idx, rd_running, resume_id, resume_ret,
              submits, with_error, shown, printed, recorded, not_engine>>

\* A variant that collects the stream wherever it is asked for.
CollectADSAsAsked(collect_ads, os, wildcard) == collect_ads

\* collect_ads and self.GetOS() == utils.WINDOWS and '*' not in remote_path
CollectADS(collect_ads, os, wildcard) ==
  collect_ads /\ os = "Windows" /\ ~wildcard

\* FileInfo(remote_path, collect_ads), for a path with or without a '*':
\* the hash flow is created first, then (collect_ads, on Windows and without
\* a wildcard) the GetFile flow of the Zone.Identifier stream, which is
\* waited for first.
FileInfo(collect_ads, wildcard) ==
  /\ fgpc = "idle"
  /\ FreeIds # {}
  /\ IF CollectADS(collect_ads, client_os, wildcard)
       THEN /\ FreeIds \ {NextId} # {}
            /\ remote' = [remote EXCEPT
                 ![NextId] = [name |-> "ClientFileFinder", action |-> "HASH",
                              source_type |-> "NA", state |-> "RUNNING"],
                 ![SecondId] = [name |-> "GetFile", action |-> "NA",
                                source_type |-> "NA", state |-> "RUNNING"]]
            /\ sync' = [op |-> "FileInfo", flow_id |-> SecondId,
                        hash_id |-> NextId, result |-> "",
                        ads_id |-> SecondId, collect_ads |-> collect_ads,
                        wildcard |-> wildcard]
       ELSE /\ CreateFlow("ClientFileFinder", "HASH", "NA")
            /\ sync' = [op |-> "FileInfo", flow_id |-> NextId,
                        hash_id |-> NextId, result |-> "",
                        ads_id |-> 0, collect_ads |-> collect_ads,
                        wildcard |-> wildcard]
  /\ fgpc' = "sync_wait"
  /\ SyncUnchanged
  /\ UNCHANGED exported

\* CollectFiles: _CreateFileFinderFlow(DOWNLOAD), _WaitAndCompleteFlow inline
CollectFiles ==
  /\ fgpc = "idle"
  /\ CreateFlow("ClientFileFinder", "DOWNLOAD", "NA")
  /\ sync' = [op |-> "CollectFiles", flow_id |-> NextId, hash_id |-> 0,
              result |-> ""]
  /\ fgpc' = "sync_wait"
  /\ SyncUnchanged
  /\ UNCHANGED exported

\* CollectArtifact: _CreateArtifactCollectorFlow, _WaitAndCompleteFlow inline
CollectArtifact ==
  /\ fgpc = "idle"
  /\ \E source_type \in ArtifactSourceTypes :
       CreateFlow("ArtifactCollectorFlow", "NA", source_type)
  /\ sync' = [op |-> "CollectArtifact", flow_id |-> NextId, hash_id |-> 0,
              result |-> ""]
  /\ fgpc' = "sync_wait"
  /\ SyncUnchanged
  /\ UNCHANGED exported

\* CollectTimeline: a new TimelineFlow, or (existing_timeline) the handle of
\* a timeline flow that is on the server already.
CollectTimeline ==
  /\ fgpc = "idle"
  /\ \/ /\ CreateFlow("TimelineFlow", "NA", "NA")
        /\ sync' = [op |-> "CollectTimeline", flow_id |-> NextId,
                    hash_id |-> 0, result |-> ""]
     \/ \E existing_timeline \in Flows :
          /\ remote[existing_timeline].name = "TimelineFlow"
          /\ sync' = [op |-> "CollectTimeline", flow_id |-> existing_timeline,
                      hash_id |-> 0, result |-> ""]
          /\ UNCHANGED remote
  /\ fgpc' = "sync_wait"
  /\ SyncUnchanged
  /\ UNCHANGED exported

\* What the operation ends with once the flow it waits for has left RUNNING:
\* the exception that leaves it, else what it returns. FileInfo catches
\* FlowFailedError and returns ''; the others let it through, and
\* _WaitAndCompleteFlow goes on to _ExportFlowResults.
SyncResult(op, flow_state, has_results) ==
  IF op = "FileInfo"
    THEN IF flow_state = "ERROR" THEN "''" ELSE "lines"
  ELSE IF flow_state = "ERROR" THEN "FlowFailedError"
  ELSE IF op = "CollectTimeline" THEN "timeline"
  ELSE TaskException(flow_state, has_results)

\* WaitUntilDone() of the synchronous collection returns or raises. In
\* FileInfo the wait for the GetFile flow ends the same way for TERMINATED
\* and for ERROR (the error is caught and printed): the hash flow is next.
SyncWait ==
  /\ fgpc = "sync_wait"
  /\ remote[sync.flow_id].state # "RUNNING"
  /\ IF sync.op = "FileInfo" /\ sync.flow_id # sync.hash_id
       THEN /\ sync' = [sync EXCEPT !.flow_id = sync.hash_id]
            /\ UNCHANGED fgpc
            /\ UNCHANGED exported
       ELSE /\ \E has_results \in ListResults(sync.flow_id) :
                 /\ sync' = [sync EXCEPT !.result =
                             SyncResult(sync.op, remote[sync.flow_id].state,
                                        has_results)]
                 /\ IF /\ sync.op \in {"CollectFiles", "CollectArtifact"}
                       /\ remote[sync.flow_id].state # "ERROR"
                      THEN ExportFlowResults(sync.flow_id, has_results)
                      ELSE UNCHANGED exported
            /\ fgpc' = "sync_returned"
  /\ UNCHANGED remote
  /\ SyncUnchanged

\* The caller has the result or the exception (RunShell prints 'Unknown
\* exception' for it) and goes on to its next command.
SyncReturned ==
  /\ fgpc = "sync_returned"
  /\ fgpc' = "idle"
  /\ sync' = NoSync
  /\ UNCHANGED remote
  /\ SyncUnchanged
  /\ UNCHANGED exported

---------------------------------------------------------------------------
\* Commands that do not complete

\* GRRShellREPL.RunShell: a KeyboardInterrupt (or an error of the remote
\* call) leaves the engine operation in progress where it is, RunShell
\* catches it and prompts for the next command. The operations that call the
\* server or wait are the status render (Get(), exception()) and the inline
\* waits of ResumeFlow and of the synchronous collections
\* (WaitUntilDone()). What the operation has written so far stays written;
\* its locals are gone.
CommandAborted ==
  /\ fgpc \in {"render_state", "render_exception", "resume_wait", "sync_wait"}
  /\ fgpc' = "idle"
  /\ idx' = 0
  /\ rd_running' = FALSE
  /\ resume_id' = 0
  /\ with_error' = {}
  /\ out' = NoLine
  /\ sync' = NoSync
  /\ UNCHANGED <<remote, keys, launched_flows, resume_ret, submits, shown,
                 printed, watch, rendered>>
  /\ UNCHANGED <<not_engine, exported>>

---------------------------------------------------------------------------
\* __del__

\* The destructor starts and calls self._collection_threads.shutdown().
Del ==
  /\ fgpc = "idle"
  /\ fgpc' = "del_shutdown"
  /\ UNCHANGED <<remote, keys, launched_flows, idx, rd_running, resume_id, resume_ret, sync,
                 submits, with_error, shown, printed, recorded>>
  /\ UNCHANGED <<not_engine, exported>>

\* A variant that does not drain the pool: shutdown(wait=False).
ShutdownNoWait == TRUE

\* shutdown() returns when every submitted task, queued ones included, has
\* finished.
ShutdownReturns == \A f \in Tracked : Done(f)

\* if launched.future.exception(): if not launched.exception_displayed: print
PrintedAtExit(f) ==
  /\ launched_flows[f].exception # "None"
  /\ ~launched_flows[f].exception_displayed

\* shutdown() has returned; the loop over the table prints the errors.
DelReport ==
  /\ fgpc = "del_shutdown"
  /\ ShutdownReturns
  /\ printed' = {f \in Tracked : PrintedAtExit(f)}
  /\ fgpc' = "exited"
  /\ UNCHANGED <<remote, keys, launched_flows, idx, rd_running, resume_id, resume_ret, sync,
                 submits, with_error, shown, recorded>>
  /\ UNCHANGED <<not_engine, exported>>

---------------------------------------------------------------------------
\* _ExportFlowResults: the archive of one flow unpacked under local_path.
\* A file name is the sequence of its components; the names on the disk are
\* relative to local_path.

MaxDepth == 3

ClientOS == {"Windows", "Linux", "Darwin"}

\* The directory the server names after the path type of the collection.
ModeDirs == {"os", "ntfs"}

client_id == "C.1"
flow_id == "F1"

\* f'{client_id}_flow_{ff_flow.data.name}_{ff_flow.flow_id}'
zip_root_dir == "C.1_flow_ClientFileFinder_F1"

\* The collected file at depth k: d/.../d/f
RECURSIVE RemotePath(_)
RemotePath(k) == IF k = 1 THEN <<"f">> ELSE <<"d">> \o RemotePath(k - 1)

RemotePaths == {RemotePath(k) : k \in 1..MaxDepth}

MANIFEST == <<zip_root_dir, "MANIFEST">>
client_info == <<zip_root_dir, client_id, "client_info.yaml">>

\* The entry of the archive for the collected file P
Entry(mode_dir, P) == <<zip_root_dir, client_id, "fs", mode_dir>> \o P

\* The archives of the server: the two markers and one entry per collected
\* file, all under the same path type directory.
RECURSIVE EntriesFrom(_, _, _)
EntriesFrom(mode_dir, collected, k) ==
  IF k > MaxDepth THEN <<>>
  ELSE (IF RemotePath(k) \in collected
          THEN <<Entry(mode_dir, RemotePath(k))>> ELSE <<>>)
       \o EntriesFrom(mode_dir, collected, k + 1)

Archive(mode_dir, collected) ==
  <<MANIFEST, client_info>> \o EntriesFrom(mode_dir, collected, 1)

\* filename.endswith(f'{flow_id}/MANIFEST') or
\* filename.endswith(f'{client_id}/client_info.yaml'): the component before
\* the last one ends with the id.
Skipped(filename) ==
  /\ Len(filename) >= 2
  /\ \/ /\ filename[Len(filename)] = "MANIFEST"
        /\ filename[Len(filename) - 1] \in {flow_id, zip_root_dir}
     \/ /\ filename[Len(filename)] = "client_info.yaml"
        /\ filename[Len(filename) - 1] = client_id

\* os_base = 'ntfs' if self.GetOS() == utils.WINDOWS else 'os'
os_base(os) == IF os = "Windows" THEN "ntfs" ELSE "os"

\* str.replace(old + os.path.sep, ''): every occurrence of old is removed.
RECURSIVE Replace(_, _)
Replace(name, old) ==
  IF Len(name) < Len(old) THEN name
  ELSE IF SubSeq(name, 1, Len(old)) = old
    THEN Replace(SubSeq(name, Len(old) + 1, Len(name)), old)
  ELSE <<Head(name)>> \o Replace(Tail(name), old)

\* nested_file_path
NestedFilePath(os, filename) ==
  Replace(filename, <<zip_root_dir, client_id, "fs", os_base(os)>>)

\* The directories above a file
Parents(name) == {SubSeq(name, 1, k) : k \in 1..(Len(name) - 1)}

\* ff_flow.GetFilesArchive() is written to the temporary file and opened;
\* the flow has results, local_path is new.
GetFilesArchive ==
  /\ export_pc = "idle"
  /\ \E mode_dir \in ModeDirs :
       \E collected \in (SUBSET RemotePaths) \ {{}} :
         infolist' = Archive(mode_dir, collected)
  /\ nfile' = 0
  /\ files' = {}
  /\ dirs' = {}
  /\ export_pc' = "extract"
  /\ UNCHANGED <<not_unpack, client_os>>

\* One turn of the loop over infolist: a marker is skipped; any other entry
\* is extracted under local_path (zip_file.extract creates its directories)
\* and moved to makedirs(dirname(dest_file_path)), dest_file_path.
ExtractEntry ==
  /\ export_pc = "extract"
  /\ nfile < Len(infolist)
  /\ nfile' = nfile + 1
  /\ LET filename == infolist[nfile + 1]
         dest_file_path == NestedFilePath(client_os, filename)
     IN IF Skipped(filename)
          THEN UNCHANGED <<files, dirs>>
          ELSE /\ files' = (files \ {filename}) \cup {dest_file_path}
               /\ dirs' = dirs \cup Parents(filename) \cup Parents(dest_file_path)
  /\ UNCHANGED <<not_unpack, client_os, infolist, export_pc>>

\* shutil.rmtree(os.path.join(local_path, zip_root_dir)) after the loop
Rmtree ==
  /\ export_pc = "extract"
  /\ nfile = Len(infolist)
  /\ files' = {name \in files : name[1] # zip_root_dir}
  /\ dirs' = {name \in dirs : name[1] # zip_root_dir}
  /\ export_pc' = "done"
  /\ UNCHANGED <<not_unpack, client_os, infolist, nfile>>

\* _ExportFlowResults has returned; the next export finds the client idle.
ExportReturns ==
  /\ export_pc = "done"
  /\ export_pc' = "idle"
  /\ UNCHANGED <<not_unpack, client_os, infolist, nfile, files, dirs>>

\* Sessions on clients of every operating system
InitExport ==
  /\ InitEngine
  /\ watch = 0
  /\ client_os \in ClientOS
  /\ InitUnpack
  /\ InitCollectSize
  /\ InitFS
  /\ InitListing
  /\ InitFlowMonitor
  /\ InitLastSeenMonitor
  /\ InitRefresh

NextExport ==
  \/ GetFilesArchive
  \/ ExtractEntry
  \/ Rmtree
  \/ ExportReturns

SpecExport == InitExport /\ [][NextExport]_vars

----------------------------------------------------------------------------
\* The size cap of the collections: SetMaxFilesize and the flow arguments
\* the client builds for the flows it creates.

MaxSize == 2
MaxCreated == 3

\* The sizes given to SetMaxFilesize and to the constructor; 0 stands for
\* the default of GRR.
Sizes == 0..MaxSize

\* A variant that writes the configured size into the arguments always.
MaxSizeArgAlways(size) == {size}

\* if self._max_collect_size: ...max_size = self._max_collect_size
\* The field of the arguments is left unset ({}) or set to one value.
MaxSizeArg(size) == IF size # 0 THEN {size} ELSE {}

\* SetMaxFilesize(size)
SetMaxFilesize ==
  /\ \E size \in Sizes : max_collect_size' = size
  /\ UNCHANGED <<flow_args, not_collect_size>>

\* _CreateFileFinderFlow(remote_path, action): the callers pass HASH
\* (FileInfo) or DOWNLOAD (CollectFiles, CollectFilesInBackground); the cap
\* goes to action.hash.max_size or to action.download.max_size.
CreateFileFinderFlow ==
  /\ Len(flow_args) < MaxCreated
  /\ \E action \in {"HASH", "DOWNLOAD"} :
       flow_args' = Append(flow_args,
                           [name |-> "ClientFileFinder", action |-> action,
                            max_size |-> MaxSizeArg(max_collect_size)])
  /\ UNCHANGED <<max_collect_size, not_collect_size>>

\* _CreateArtifactCollectorFlow(artifact): the cap goes to max_file_size.
CreateArtifactCollectorFlow ==
  /\ Len(flow_args) < MaxCreated
  /\ flow_args' = Append(flow_args,
                         [name |-> "ArtifactCollectorFlow", action |-> "NA",
                          max_size |-> MaxSizeArg(max_collect_size)])
  /\ UNCHANGED <<max_collect_size, not_collect_size>>

\* GRRShellClient(..., max_collect_size): any size, 0 when not given
InitCap ==
  /\ InitEngine
  /\ watch = 0
  /\ client_os = "Windows"
  /\ InitUnpack
  /\ max_collect_size \in Sizes
  /\ flow_args = <<>>
  /\ InitFS
  /\ InitListing
  /\ InitFlowMonitor
  /\ InitLastSeenMonitor
  /\ InitRefresh

NextCap ==
  \/ SetMaxFilesize
  \/ CreateFileFinderFlow
  \/ CreateArtifactCollectorFlow

SpecCap == InitCap /\ [][NextCap]_vars

----------------------------------------------------------------------------
\* Ls(path, sortkey, ascending), from the list of entries on

\* return sorted(entries, key=_LS_SORT_KEY_MAP.get(sortkey),
\*               reverse=not ascending)
Ls ==
  /\ ls_ret = <<>>
  /\ ls_ret' = Sorted(entries, sortkey, ~ascending)
  /\ UNCHANGED <<entries, sortkey, ascending, not_listing>>

\* Every listing, with every sortkey, in both directions
InitLs ==
  /\ InitEngine
  /\ watch = 0
  /\ client_os = "Windows"
  /\ InitUnpack
  /\ InitCollectSize
  /\ InitFS
  /\ InitFlowMonitor
  /\ InitLastSeenMonitor
  /\ InitRefresh
  /\ entries \in Listings
  /\ sortkey \in SortKeys
  /\ ascending \in BOOLEAN
  /\ ls_ret = <<>>

NextLs == Ls

SpecLs == InitLs /\ [][NextLs]_vars

----------------------------------------------------------------------------
\* The steps of the FlowMonitor and of its callers

\* The engine creates a flow and holds its handle.
ScheduleFlow ==
  /\ CreateFlow("ClientFileFinder", "DOWNLOAD", "NA")
  /\ handles' = handles \cup {NextId}
  /\ UNCHANGED <<monitor_flows, mutex, mon_pc, mon_flow, flow_keys, it_used,
                 it_pos, call, observed>>
  /\ UNCHANGED not_flow_monitor
  /\ UNCHANGED generator

\* StartMonitor(): the thread starts at the top of the loop of _Monitor.
StartMonitor ==
  /\ mon_pc = "off"
  /\ mon_pc' = "acquire"
  /\ UNCHANGED <<remote, monitor_flows, mutex, mon_flow, flow_keys, it_used,
                 it_pos, call, handles, observed>>
  /\ UNCHANGED not_flow_monitor
  /\ UNCHANGED generator

\* _Monitor: `with self._mutex:`, then _SingleFetch() calls ListFlows().
MonitorAcquire ==
  /\ mon_pc = "acquire"
  /\ mutex = "free"
  /\ mutex' = "monitor"
  /\ mon_pc' = "fetch"
  /\ UNCHANGED <<remote, monitor_flows, mon_flow, flow_keys, it_used, it_pos,
                 call, handles, observed>>
  /\ UNCHANGED not_flow_monitor
  /\ UNCHANGED generator

\* A variant that takes no flow for cached.
InFlowsNever(flows, f) == FALSE

\* flow_handle.flow_id in self._flows
InFlows(flows, f) == f \in DOMAIN flows

\* The flows ListFlows() returns that are not in _flows, in order
RECURSIVE Listed(_, _, _)
Listed(flows, order, f) ==
  IF f > MaxFlows THEN [flows |-> flows, order |-> order]
  ELSE IF remote[f] = NoFlow \/ InFlows(flows, f)
    THEN Listed(flows, order, f + 1)
  ELSE Listed(SetFlow(flows, f, Get(f)), SetKey(order, f), f + 1)

\* _SingleFetch(): ListFlows() returns, the flows not yet cached are added,
\* and the lock is released.
SingleFetch ==
  /\ mon_pc = "fetch"
  /\ monitor_flows' = Listed(monitor_flows, flow_keys, 1).flows
  /\ flow_keys' = Listed(monitor_flows, flow_keys, 1).order
  /\ mutex' = "free"
  /\ mon_pc' = "for"
  /\ UNCHANGED <<remote, mon_flow, it_used, it_pos, call, handles, observed>>
  /\ UNCHANGED not_flow_monitor
  /\ UNCHANGED generator

\* `for flow_id in self._flows`: the iterator notes the size of the dict.
MonitorFor ==
  /\ mon_pc = "for"
  /\ it_used' = Len(flow_keys)
  /\ it_pos' = 1
  /\ mon_pc' = "next"
  /\ UNCHANGED <<remote, monitor_flows, mutex, mon_flow, flow_keys, call,
                 handles, observed>>
  /\ UNCHANGED not_flow_monitor
  /\ UNCHANGED generator

\* The iterator of a dict raises RuntimeError ('dictionary changed size
\* during iteration') when the dict has another size than at its start.
SizeChanged == Len(flow_keys) # it_used

\* The next flow_id of the loop, its end (time.sleep), or the RuntimeError,
\* which nothing in _Monitor catches: the thread ends.
MonitorNext ==
  /\ mon_pc = "next"
  /\ IF SizeChanged
       THEN mon_pc' = "dead" /\ UNCHANGED <<mon_flow, it_pos>>
     ELSE IF it_pos > it_used
       THEN mon_pc' = "sleep" /\ UNCHANGED <<mon_flow, it_pos>>
     ELSE /\ mon_flow' = flow_keys[it_pos]
          /\ it_pos' = it_pos + 1
          /\ mon_pc' = "check"
  /\ UNCHANGED <<remote, monitor_flows, mutex, flow_keys, it_used, call,
                 handles, observed>>
  /\ UNCHANGED not_flow_monitor
  /\ UNCHANGED generator

\* _UpdateCachedFlow(flow_id) in the monitor thread: the condition
MonitorCheck ==
  /\ mon_pc = "check"
  /\ mon_pc' = IF Stale(mon_flow) THEN "lock" ELSE "next"
  /\ UNCHANGED <<remote, monitor_flows, mutex, mon_flow, flow_keys, it_used,
                 it_pos, call, handles, observed>>
  /\ UNCHANGED not_flow_monitor
  /\ UNCHANGED generator

\* `with self._mutex:`, then Flow(flow_id).Get() is called
MonitorLock ==
  /\ mon_pc = "lock"
  /\ mutex = "free"
  /\ mutex' = "monitor"
  /\ mon_pc' = "get"
  /\ UNCHANGED <<remote, monitor_flows, mon_flow, flow_keys, it_used, it_pos,
                 call, handles, observed>>
  /\ UNCHANGED not_flow_monitor
  /\ UNCHANGED generator

\* Get() returns, the flow is cached and the lock is released.
MonitorUpdate ==
  /\ mon_pc = "get"
  /\ monitor_flows' = SetFlow(monitor_flows, mon_flow, Get(mon_flow))
  /\ flow_keys' = SetKey(flow_keys, mon_flow)
  /\ mutex' = "free"
  /\ mon_pc' = "next"
  /\ UNCHANGED <<remote, mon_flow, it_used, it_pos, call, handles, observed>>
  /\ UNCHANGED not_flow_monitor
  /\ UNCHANGED generator

\* time.sleep(self.DELAY) is over.
MonitorSleep ==
  /\ mon_pc = "sleep"
  /\ mon_pc' = "acquire"
  /\ UNCHANGED <<remote, monitor_flows, mutex, mon_flow, flow_keys, it_used,
                 it_pos, call, handles, observed>>
  /\ UNCHANGED not_flow_monitor
  /\ UNCHANGED generator

\* GetFlow(flow_id) is called for a flow of the server:
\* _UpdateCachedFlow(flow_id) evaluates its condition.
GetFlow ==
  /\ mon_pc # "off"
  /\ call = NoCall
  /\ \E f \in Flows :
       /\ remote[f] # NoFlow
       /\ call' = [op |-> "GetFlow", flow_id |-> f,
                   pc |-> IF Stale(f) THEN "lock" ELSE "return"]
  /\ UNCHANGED <<remote, monitor_flows, mutex, mon_pc, mon_flow, flow_keys,
                 it_used, it_pos, handles, observed>>
  /\ UNCHANGED not_flow_monitor
  /\ UNCHANGED generator

GetFlowLock ==
  /\ call.op = "GetFlow"
  /\ call.pc = "lock"
  /\ mutex = "free"
  /\ mutex' = "foreground"
  /\ call' = [call EXCEPT !.pc = "get"]
  /\ UNCHANGED <<remote, monitor_flows, mon_pc, mon_flow, flow_keys, it_used,
                 it_pos, handles, observed>>
  /\ UNCHANGED not_flow_monitor
  /\ UNCHANGED generator

GetFlowUpdate ==
  /\ call.op = "GetFlow"
  /\ call.pc = "get"
  /\ monitor_flows' = SetFlow(monitor_flows, call.flow_id, Get(call.flow_id))
  /\ flow_keys' = SetKey(flow_keys, call.flow_id)
  /\ mutex' = "free"
  /\ call' = [call EXCEPT !.pc = "return"]
  /\ UNCHANGED <<remote, mon_pc, mon_flow, it_used, it_pos, handles,
                 observed>>
  /\ UNCHANGED not_flow_monitor
  /\ UNCHANGED generator

\* `with self._mutex: return self._flows[flow_id]`: the caller sees the
\* state of the cached flow.
GetFlowReturns ==
  /\ call.op = "GetFlow"
  /\ call.pc = "return"
  /\ mutex = "free"
  /\ observed' = [observed EXCEPT
                    ![call.flow_id] = monitor_flows[call.flow_id].state]
  /\ call' = NoCall
  /\ UNCHANGED <<remote, monitor_flows, mutex, mon_pc, mon_flow, flow_keys,
                 it_used, it_pos, handles>>
  /\ UNCHANGED not_flow_monitor
  /\ UNCHANGED generator

\* TrackFlow(flow_handle), with the handle of a flow the engine has created
TrackFlow ==
  /\ mon_pc # "off"
  /\ call = NoCall
  /\ mutex = "free"
  /\ \E f \in handles :
       /\ monitor_flows' = SetFlow(monitor_flows, f, ScheduledHandle(f))
       /\ flow_keys' = SetKey(flow_keys, f)
       /\ handles' = handles \ {f}
  /\ UNCHANGED <<remote, mutex, mon_pc, mon_flow, it_used, it_pos, call,
                 observed>>
  /\ UNCHANGED not_flow_monitor
  /\ UNCHANGED generator

\* GetFlowsInfoList(): the caller sees the states of the cached flows.
GetFlowsInfoList ==
  /\ mon_pc # "off"
  /\ call = NoCall
  /\ mutex = "free"
  /\ observed' = [f \in Flows |->
                    IF f \in DOMAIN monitor_flows
                      THEN monitor_flows[f].state ELSE observed[f]]
  /\ UNCHANGED <<remote, monitor_flows, mutex, mon_pc, mon_flow, flow_keys,
                 it_used, it_pos, call, handles>>
  /\ UNCHANGED not_flow_monitor
  /\ UNCHANGED generator

\* The server ends a flow.
FlowEnds ==
  \E f \in Flows : RemoteFinish(f)

InitMonitored == InitEngine /\ watch = 0 /\ InitRest

NextFlowMonitor ==
  \/ ScheduleFlow
  \/ FlowEnds
  \/ StartMonitor
  \/ MonitorAcquire
  \/ SingleFetch
  \/ MonitorFor
  \/ MonitorNext
  \/ MonitorCheck
  \/ MonitorLock
  \/ MonitorUpdate
  \/ MonitorSleep
  \/ GetFlow
  \/ GetFlowLock
  \/ GetFlowUpdate
  \/ GetFlowReturns
  \/ TrackFlow
  \/ GetFlowsInfoList

SpecFlowMonitor == InitMonitored /\ [][NextFlowMonitor]_vars

\* GetFlowsInfoList is a generator function: the call returns a generator
\* and runs none of the body; each next() of the consumer runs the body up
\* to its next yield, and the frame stays where it is, inside
\* `with self._mutex:`, until the next next(), the close() or the
\* finalisation of the generator.

\* sorted(values, key=lambda x: x.data.started_at, reverse=True): the server
\* numbers the flows in the order it starts them. count (50) is more than
\* the flows there are.
RECURSIVE SortedValues(_)
SortedValues(ids) ==
  IF ids = {} THEN <<>>
  ELSE LET newest == CHOOSE f \in ids : \A g \in ids : g <= f
       IN <<newest>> \o SortedValues(ids \ {newest})

\* it = GetFlowsInfoList()
FlowsInfoListCalled ==
  /\ mon_pc # "off"
  /\ call = NoCall
  /\ generator = NoGenerator
  /\ generator' = [NoGenerator EXCEPT !.pc = "created"]
  /\ UNCHANGED <<remote, monitor_flows, mutex, mon_pc, mon_flow, flow_keys,
                 it_used, it_pos, call, handles, observed>>
  /\ UNCHANGED not_flow_monitor

\* The first next(it): the lock is taken, the values are listed and sorted,
\* and the first of them is yielded with the lock held; without a value
\* the with block and the generator end.
GeneratorStarts ==
  /\ generator.pc = "created"
  /\ call = NoCall
  /\ mutex = "free"
  /\ \E values \in {SortedValues(DOMAIN monitor_flows)} :
       IF values = <<>>
         THEN /\ generator' = NoGenerator
              /\ UNCHANGED <<mutex, observed>>
         ELSE /\ generator' = [pc |-> "suspended", values |-> values,
                               pos |-> 1]
              /\ mutex' = "generator"
              /\ observed' = [observed EXCEPT
                    ![values[1]] = monitor_flows[values[1]].state]
  /\ UNCHANGED <<remote, monitor_flows, mon_pc, mon_flow, flow_keys, it_used,
                 it_pos, call, handles>>
  /\ UNCHANGED not_flow_monitor

\* A later next(it): the next value is yielded, or the loop and the with
\* block end and the lock is released.
GeneratorNext ==
  /\ generator.pc = "suspended"
  /\ call = NoCall
  /\ IF generator.pos < Len(generator.values)
       THEN /\ generator' = [generator EXCEPT !.pos = generator.pos + 1]
            /\ observed' = [observed EXCEPT
                  ![generator.values[generator.pos + 1]] =
                    monitor_flows[generator.values[generator.pos + 1]].state]
            /\ UNCHANGED mutex
       ELSE /\ generator' = NoGenerator
            /\ mutex' = "free"
            /\ UNCHANGED observed
  /\ UNCHANGED <<remote, monitor_flows, mon_pc, mon_flow, flow_keys, it_used,
                 it_pos, call, handles>>
  /\ UNCHANGED not_flow_monitor

\* The consumer leaves its loop early. A generator nobody refers to any
\* more is finalised (GeneratorExit is raised at the yield and the with
\* block releases the lock) at once where objects are reference-counted;
\* one that is still referred to, or that waits for the collector, stays
\* suspended.
GeneratorAbandoned ==
  /\ generator.pc = "suspended"
  /\ call = NoCall
  /\ \/ /\ generator' = NoGenerator
        /\ mutex' = "free"
     \/ /\ generator' = [generator EXCEPT !.pc = "abandoned"]
        /\ UNCHANGED mutex
  /\ UNCHANGED <<remote, monitor_flows, mon_pc, mon_flow, flow_keys, it_used,
                 it_pos, call, handles, observed>>
  /\ UNCHANGED not_flow_monitor

\* The abandoned generator is closed or collected.
GeneratorFinalised ==
  /\ generator.pc = "abandoned"
  /\ generator' = NoGenerator
  /\ mutex' = "free"
  /\ UNCHANGED <<remote, monitor_flows, mon_pc, mon_flow, flow_keys, it_used,
                 it_pos, call, handles, observed>>
  /\ UNCHANGED not_flow_monitor

NextFlowsInfoList ==
  \/ NextFlowMonitor
  \/ FlowsInfoListCalled
  \/ GeneratorStarts
  \/ GeneratorNext
  \/ GeneratorAbandoned
  \/ GeneratorFinalised

SpecFlowsInfoList == InitMonitored /\ [][NextFlowsInfoList]_vars

----------------------------------------------------------------------------
\* client_monitors.LastSeenMonitor: the thread of _MonitorBase._Monitor and
\* the foreground's calls of GetLastSeen, one at a time.

\* The client checks in with the server
ClientSeen ==
  /\ last_seen_at < FirstSeen + MaxSeen * SeenStep
  /\ last_seen_at' = last_seen_at + SeenStep
  /\ UNCHANGED <<seen_mutex, seen_pc, last_seen, seen_call, seen_ret>>
  /\ UNCHANGED not_last_seen_monitor

\* StartMonitor() of the LastSeenMonitor: the thread starts
StartLastSeenMonitor ==
  /\ seen_pc = "off"
  /\ seen_pc' = "acquire"
  /\ UNCHANGED <<last_seen_at, seen_mutex, last_seen, seen_call, seen_ret>>
  /\ UNCHANGED not_last_seen_monitor

\* _Monitor: `with self._mutex:` and the call of _SingleFetch(), which
\* sends Get() to the server
LastSeenAcquire ==
  /\ seen_pc = "acquire"
  /\ seen_mutex = "free"
  /\ seen_mutex' = "monitor"
  /\ seen_pc' = "fetch"
  /\ UNCHANGED <<last_seen_at, last_seen, seen_call, seen_ret>>
  /\ UNCHANGED not_last_seen_monitor

\* _SingleFetch: Get() answers, _last_seen is assigned, the lock is released
LastSeenSingleFetch ==
  /\ seen_pc = "fetch"
  /\ last_seen' = FromTimestamp(last_seen_at)
  /\ seen_mutex' = "free"
  /\ seen_pc' = "sleep"
  /\ UNCHANGED <<last_seen_at, seen_call, seen_ret>>
  /\ UNCHANGED not_last_seen_monitor

\* _Monitor: time.sleep(self.DELAY) ends
LastSeenSleep ==
  /\ seen_pc = "sleep"
  /\ seen_pc' = "acquire"
  /\ UNCHANGED <<last_seen_at, seen_mutex, last_seen, seen_call, seen_ret>>
  /\ UNCHANGED not_last_seen_monitor

\* The foreground calls GetLastSeen() and gets to `with self._mutex:`
GetLastSeen ==
  /\ seen_call = "idle"
  /\ seen_call' = "lock"
  /\ UNCHANGED <<last_seen_at, seen_mutex, seen_pc, last_seen, seen_ret>>
  /\ UNCHANGED not_last_seen_monitor

\* GetLastSeen: the lock is acquired, `return self._last_seen` is evaluated
\* and the lock is released. An attribute that has no value raises.
GetLastSeenReturns ==
  /\ seen_call = "lock"
  /\ seen_mutex = "free"
  /\ seen_call' = "idle"
  /\ seen_ret' = IF last_seen = NoAttribute
                  THEN [raised |-> "AttributeError", value |-> NoAttribute]
                  ELSE [raised |-> "None", value |-> last_seen]
  /\ UNCHANGED <<last_seen_at, seen_mutex, seen_pc, last_seen>>
  /\ UNCHANGED not_last_seen_monitor

NextLastSeen ==
  \/ ClientSeen
  \/ StartLastSeenMonitor
  \/ LastSeenAcquire
  \/ LastSeenSingleFetch
  \/ LastSeenSleep
  \/ GetLastSeen
  \/ GetLastSeenReturns

SpecLastSeen == InitMonitored /\ [][NextLastSeen]_vars

----------------------------------------------------------------------------
\* The operations of GrrShellEmulatedFS

\* ParseTimelineFlow(timeline_data, timeline_time)
ParseTimelineFlow ==
  \E timeline_data \in Feeds : \E timeline_time \in Times :
    \E parsed \in {ParseTimelineFlowResult(heap, root, pwd, timeline_data,
                                          timeline_time)} :
       /\ Len(parsed.heap) <= MaxNodes
       /\ heap' = parsed.heap
       /\ root' = parsed.root
       /\ pwd' = parsed.pwd
       /\ fs_op' = [op |-> "ParseTimelineFlow", path |-> RootPath,
                    t |-> timeline_time, found |-> FALSE, ret |-> parsed.err]
       /\ UNCHANGED not_emulated_fs

\* ClearPath(remote_path, timeline_time)
ClearPath ==
  \E remote_path \in FsPaths \cup {RootPath} : \E timeline_time \in Times :
    \E cleared \in {ClearPathResult(heap, root, pwd, remote_path,
                                    timeline_time)} :
       /\ Len(cleared.heap) <= MaxNodes
       /\ heap' = cleared.heap
       /\ root' = cleared.root
       /\ pwd' = cleared.pwd
       /\ fs_op' = [op |-> "ClearPath", path |-> remote_path,
                    t |-> timeline_time,
                    found |-> ResolveRemotePathToEmulatedFS(
                                heap, root, remote_path).err = "None",
                    ret |-> cleared.err]
       /\ UNCHANGED not_emulated_fs

\* Cd(path): the working directory and the exception it ends with
CdFound(h, p, path_entry) ==
  IF path_entry.err # "None" THEN [pwd |-> p, err |-> path_entry.err]
  ELSE IF ~h[path_entry.node].dir THEN [pwd |-> p, err |-> "IsAFileError"]
  ELSE [pwd |-> path_entry.node, err |-> "None"]

CdResult(h, r, p, path) ==
  CdFound(h, p, ResolveRemotePathToEmulatedFS(h, r, path))

\* Cd(path), for a path of paths: the path is normalised, then resolved
Cd(paths) ==
  \E path \in paths :
    \E norm \in {NormaliseFSPath(heap, pwd, path)} :
    \E changed \in {CdResult(heap, root, pwd, norm)} :
    \E kept \in {InUse(heap, root, changed.pwd)} :
       /\ heap' = kept.heap
       /\ root' = kept.root
       /\ pwd' = kept.pwd
       /\ fs_op' = [op |-> "Cd", path |-> norm, t |-> 0,
                    found |-> ResolveRemotePathToEmulatedFS(
                                heap, root, norm).err = "None",
                    ret |-> changed.err]
       /\ UNCHANGED not_emulated_fs

\* RemotePathExists(path, dirs_only) as the callers of the class use it:
\* it reads the tree and writes nothing.
CallRemotePathExists ==
  \E path \in FsPaths \cup {RootPath} : \E dirs_only \in BOOLEAN :
    /\ RemotePathExists(heap, root, path, dirs_only)
         \in {"True", "False", "AttributeError"}
    /\ UNCHANGED vars

InitEmulatedFS == InitEngine /\ watch = 0 /\ InitRest

NextFS ==
  \/ ParseTimelineFlow
  \/ ClearPath
  \/ Cd(AbsolutePaths)
  \/ CallRemotePathExists

SpecFS == InitEmulatedFS /\ [][NextFS]_vars

\* The same filesystem with Cd called on the paths a user types, relative
\* ones and ones with '..' included.
NextCd ==
  \/ ParseTimelineFlow
  \/ ClearPath
  \/ Cd(Paths)

SpecCd == InitEmulatedFS /\ [][NextCd]_vars

----------------------------------------------------------------------------
\* grr_shell_repl.GRRShellREPL._RefreshTimeline, statement by statement,
\* with GRRShellClient.CollectTimeline as it ends: the REPL runs one command
\* at a time, so that cd is a command between two refreshes.
MaxStamp == 1
MaxResults == 2

\* result.timestamp of the results of a timeline flow
Stamps == 1..MaxStamp

\* flow_handle.ListResults(), as the timestamps of the results
ResultStamps == UNION {[1..n -> Stamps] : n \in 0..MaxResults}

\* The feed of a timeline flow whose root is path: rows at path or below
ScopedFeeds(path) ==
  {timeline_data \in Feeds :
     \A i \in 1..Len(timeline_data) :
       /\ Len(timeline_data[i].name) >= Len(path)
       /\ SubSeq(timeline_data[i].name, 1, Len(path)) = path}

\* How the wait of CollectTimeline ends: the flow has left RUNNING, or
\* CTRL+C is pressed.
CollectOutcomes == {"TERMINATED", "ERROR", "KeyboardInterrupt"}

\* A variant in which the wait returns whatever has ended it.
CollectRaisesNever(outcome) == FALSE

\* flow_handle.WaitUntilDone() raises FlowFailedError for a flow in ERROR;
\* KeyboardInterrupt is raised where it arrives.
CollectRaises(outcome) == outcome # "TERMINATED"

\* for result in results: self.last_timeline_time = result.timestamp; break
FirstStamp(results, old) == IF results = <<>> THEN old ELSE results[1]

\* The command refresh: _RefreshTimeline(path) up to the call of
\* CollectTimeline; '.' is the working directory.
RefreshTimeline ==
  /\ refresh.pc = "idle"
  /\ \E path \in FsPaths \cup {RootPath, EmptyName} :
       refresh' = [NoRefresh EXCEPT
                     !.pc = "collect",
                     !.path = IF path = EmptyName THEN GetPWD(heap, pwd)
                              ELSE path]
  /\ UNCHANGED <<emulated_fs, last_timeline_time>>
  /\ UNCHANGED not_refreshing

\* CollectTimeline(path, existing_timeline) returns the feed, having
\* assigned last_timeline_time, or an exception leaves it and
\* _RefreshTimeline with it. The feed it returns is read by
\* ParseTimelineFlow and by nothing before: it is drawn there.
RefreshCollected ==
  /\ refresh.pc = "collect"
  /\ \E outcome \in CollectOutcomes :
       IF CollectRaises(outcome)
         THEN /\ refresh' = NoRefresh
              /\ UNCHANGED last_timeline_time
         ELSE \E results \in ResultStamps :
                /\ last_timeline_time' =
                     FirstStamp(results, last_timeline_time)
                /\ refresh' = [refresh EXCEPT
                                 !.pc = "clear",
                                 !.collected = outcome,
                                 !.stamp = FirstStamp(results, 0)]
  /\ UNCHANGED emulated_fs
  /\ UNCHANGED not_refreshing

\* self._emulated_fs.ClearPath(path, last_timeline_time); an exception
\* leaves _RefreshTimeline.
RefreshClearPath ==
  /\ refresh.pc = "clear"
  /\ \E cleared \in {ClearPathResult(heap, root, pwd, refresh.path,
                                     last_timeline_time)} :
       /\ Len(cleared.heap) <= MaxNodes
       /\ heap' = cleared.heap
       /\ root' = cleared.root
       /\ pwd' = cleared.pwd
       /\ fs_op' = [op |-> "ClearPath", path |-> refresh.path,
                    t |-> last_timeline_time,
                    found |-> ResolveRemotePathToEmulatedFS(
                                heap, root, refresh.path).err = "None",
                    ret |-> cleared.err]
       /\ refresh' = IF cleared.err = "None"
                       THEN [refresh EXCEPT !.pc = "parse"]
                       ELSE NoRefresh
  /\ UNCHANGED last_timeline_time
  /\ UNCHANGED not_refreshing

\* self._emulated_fs.ParseTimelineFlow(timeline_data, last_timeline_time)
RefreshParse ==
  /\ refresh.pc = "parse"
  /\ \E timeline_data \in ScopedFeeds(refresh.path) :
     \E parsed \in {ParseTimelineFlowResult(heap, root, pwd, timeline_data,
                                             last_timeline_time)} :
       /\ Len(parsed.heap) <= MaxNodes
       /\ heap' = parsed.heap
       /\ root' = parsed.root
       /\ pwd' = parsed.pwd
       /\ fs_op' = [op |-> "ParseTimelineFlow", path |-> RootPath,
                    t |-> last_timeline_time, found |-> FALSE,
                    ret |-> parsed.err]
       /\ refresh' = IF parsed.err = "None"
                       THEN [refresh EXCEPT !.pc = "cd"]
                       ELSE NoRefresh
  /\ UNCHANGED last_timeline_time
  /\ UNCHANGED not_refreshing

\* if self._emulated_fs.GetPWD() == path: self._Cd([path])
RefreshCd ==
  /\ refresh.pc = "cd"
  /\ refresh' = NoRefresh
  /\ IF GetPWD(heap, pwd) = refresh.path
       THEN \E changed \in {CdResult(heap, root, pwd, refresh.path)} :
            \E kept \in {InUse(heap, root, changed.pwd)} :
              /\ heap' = kept.heap
              /\ root' = kept.root
              /\ pwd' = kept.pwd
              /\ fs_op' = [op |-> "Cd", path |-> refresh.path, t |-> 0,
                           found |-> ResolveRemotePathToEmulatedFS(
                                       heap, root, refresh.path).err = "None",
                           ret |-> changed.err]
       ELSE UNCHANGED emulated_fs
  /\ UNCHANGED last_timeline_time
  /\ UNCHANGED not_refreshing

\* The command cd, between two refreshes
ReplCd ==
  /\ refresh.pc = "idle"
  /\ Cd(AbsolutePaths)

NextRefresh ==
  \/ RefreshTimeline
  \/ RefreshCollected
  \/ RefreshClearPath
  \/ RefreshParse
  \/ RefreshCd
  \/ ReplCd

SpecRefresh == InitEmulatedFS /\ [][NextRefresh]_vars

----------------------------------------------------------------------------
Next ==
  \/ ExternalCreateFlow
  \/ \E f \in Flows : RemoteFinish(f)
  \/ \E f \in Flows : WorkerStart(f)
  \/ \E f \in Flows : WaitAndCompleteFlow(f)
  \/ CollectFilesInBackground
  \/ CollectArtifactInBackground
  \/ GetRunningFlowCount
  \/ GetBackgroundFlowsState
  \/ RenderState
  \/ RenderException
  \/ \E f \in Flows : ResumeFlow(f)
  \/ ResumeWait
  \/ ResumeReturned
  \/ \E collect_ads \in BOOLEAN : \E wildcard \in BOOLEAN :
       FileInfo(collect_ads, wildcard)
  \/ CollectFiles
  \/ CollectArtifact
  \/ CollectTimeline
  \/ SyncWait
  \/ SyncReturned
  \/ CommandAborted
  \/ Del
  \/ DelReport

Spec == Init /\ [][Next]_vars

\* FileInfo on a client of any operating system, with the flows it waits
\* for ending one way or the other and with CTRL+C.
InitFileInfo ==
  /\ InitEngine
  /\ watch = 0
  /\ client_os \in ClientOS
  /\ InitUnpack
  /\ InitCollectSize
  /\ InitFS
  /\ InitListing
  /\ InitFlowMonitor
  /\ InitLastSeenMonitor
  /\ InitRefresh

NextFileInfo ==
  \/ \E collect_ads \in BOOLEAN : \E wildcard \in BOOLEAN :
       FileInfo(collect_ads, wildcard)
  \/ \E f \in Flows : RemoteFinish(f)
  \/ SyncWait
  \/ SyncReturned
  \/ CommandAborted

SpecFileInfo == InitFileInfo /\ [][NextFileInfo]_vars

SpecWatch == InitWatch /\ [][Next]_vars

\* The remote side ends every flow, a free worker takes a queued task, a
\* task whose flow has ended finishes, and shutdown() returns once the pool
\* is drained.
Fairness ==
  /\ \A f \in Flows : WF_vars(RemoteFinish(f))
  /\ \A f \in Flows : WF_vars(WorkerStart(f))
  /\ \A f \in Flows : WF_vars(WaitAndCompleteFlow(f))
  /\ WF_vars(DelReport)

LiveSpec == Init /\ [][Next]_vars /\ Fairness

---------------------------------------------------------------------------
\* Properties of the status render (SpecWatch records the lines of watch)

\* C1: across the status renders that return, the derived state shown for a
\* background flow never goes back in the order RUNNING < DOWNLOADING <
\* COMPLETE: after COMPLETE only COMPLETE is shown, after DOWNLOADING only
\* DOWNLOADING or COMPLETE, whether or not the flow's task had been picked
\* up by a worker when it was rendered.
C1_RenderedStateNeverRegresses ==
  [][/\ rendered.state = "COMPLETE" => rendered'.state = "COMPLETE"
     /\ rendered.state = "DOWNLOADING"
          => rendered'.state \in {"DOWNLOADING", "COMPLETE"}]_vars

\* DOWNLOADING has been shown for watch and the render in progress has
\* computed COMPLETE for it.
C1_Witness ==
  /\ rendered.state = "DOWNLOADING"
  /\ fgpc = "render_exception"
  /\ keys[idx] = watch
  /\ out.state = "COMPLETE"

\* C2 (as the specification states it): a line with COMPLETE is rendered
\* for a flow only if the flow's task has finished; and when the flow is
\* TERMINATED and its task has not finished, running or still queued, the
\* state computed for it is DOWNLOADING.
C2_CompleteOnlyWhenFinished ==
  fgpc = "render_exception" =>
    LET f == keys[idx]
        flow_state == launched_flows[f].flow.state
        state == DerivedState(flow_state, rd_running)
    IN /\ (ExceptionCallReturns(f, rd_running) /\ state = "COMPLETE")
            => Done(f)
       /\ (flow_state = "TERMINATED" /\ ~Done(f)) => state = "DOWNLOADING"

\* C3 (as the specification states it): a render made after watch's task
\* has failed shows the error text, and a render that returns after a
\* render that showed the error text does not show it again.
C3_ErrorShownOnce ==
  [][(fgpc = "render_exception" /\ keys[idx] = watch)
       => /\ (~rd_running /\ Done(watch)
                /\ launched_flows[watch].exception # "None"
                /\ fgpc' = "idle")
               => rendered'.error_msg # ""
          /\ (rendered.error_msg # "" /\ fgpc' = "idle")
               => rendered'.error_msg = ""]_vars

\* C4 (as the specification states it): a status query never waits for a
\* background task: the exception() call of the render in progress can
\* return in every state, also for a task that is still queued.
C4_StatusQueryNeverWaits ==
  fgpc = "render_exception" => ExceptionCallReturns(keys[idx], rd_running)

\* C5: when every remote flow ends, the drain of the pool in __del__
\* terminates, and after it the table holds exactly one record per
\* submission made, each with a finished task: none running, none queued.
C5_DrainTerminates ==
  /\ [](fgpc = "exited" =>
          LET made == UNION {{<<f, i>> : i \in 1..submits[f]} : f \in Flows}
          IN /\ Len(keys) = Cardinality(made)
             /\ Cardinality(DOMAIN launched_flows) = Cardinality(made)
             /\ \A f \in DOMAIN launched_flows : Done(f))
  /\ (fgpc = "del_shutdown") ~> (fgpc = "exited")

\* The drain has ended with MaxFlows records, one of them with a captured
\* exception and one finished without.
C5_Witness ==
  /\ fgpc = "exited"
  /\ Len(keys) = MaxFlows
  /\ \E f \in Tracked : launched_flows[f].exception # "None"
  /\ \E f \in Tracked : launched_flows[f].exception = "None"

---------------------------------------------------------------------------
\* Properties of the destructor and of the table

\* C6 (as the specification states it): when __del__ has run, the error of
\* a failed task has been printed by it exactly if no status render had
\* shown that error; so every failure has been reported, by a render or at
\* exit.
C6_FailureReportedAtExit ==
  fgpc = "exited" =>
    \A f \in DOMAIN launched_flows :
      launched_flows[f].exception # "None" =>
        /\ f \in printed <=> f \notin shown
        /\ f \in printed \cup shown

\* C7: no step removes or re-keys a record of the table: every key stays,
\* in its place in the order of insertion, with a record of that flow id;
\* the total that GetRunningFlowCount reports never decreases; and the steps
\* of a status render keep the set of keys as it is.
C7_TableOnlyGrows ==
  [][/\ Len(keys') >= Len(keys)
     /\ SubSeq(keys', 1, Len(keys)) = keys
     /\ \A f \in DOMAIN launched_flows :
          /\ f \in DOMAIN launched_flows'
          /\ launched_flows'[f].flow.flow_id = f
     /\ RunningFlowCount'[2] >= RunningFlowCount[2]
     /\ fgpc \in {"render_state", "render_exception"}
          => /\ keys' = keys
             /\ DOMAIN launched_flows' = DOMAIN launched_flows]_vars

\* The table has MaxFlows records, a status render has shown an error and
\* __del__ has drained the pool.
C7_Witness ==
  /\ Len(keys) = MaxFlows
  /\ RunningFlowCount[2] = MaxFlows
  /\ shown # {}
  /\ fgpc = "exited"

\* C8: for every tracked flow there is exactly one record and exactly one
\* submission to the pool; ResumeFlow on its id returns 'already tracked',
\* without waiting for the flow, submits nothing and leaves the table as it
\* is.
C8_ResumeTrackedFlow ==
  /\ [](\A f \in DOMAIN launched_flows :
          /\ submits[f] = 1
          /\ Cardinality({i \in 1..Len(keys) : keys[i] = f}) = 1
          /\ ResumeFlowResult(f) = "already tracked")
  /\ [][\A f \in DOMAIN launched_flows :
          /\ ~(fgpc = "idle" /\ fgpc' = "resume_wait" /\ resume_id' = f)
          /\ (fgpc = "idle" /\ fgpc' = "resume_returned"
                /\ resume_ret'.flow_id = f)
               => /\ resume_ret'.result = "already tracked"
                  /\ UNCHANGED <<keys, launched_flows, submits>>]_vars

\* ResumeFlow has returned 'already tracked' for a flow whose task is still
\* queued or running.
C8_Witness ==
  /\ fgpc = "resume_returned"
  /\ resume_ret.result = "already tracked"
  /\ ~Done(resume_ret.flow_id)

\* C9: ResumeFlow on a flow whose type is none of ClientFileFinder,
\* ArtifactCollectorFlow and GetFile raises NotResumeableFlowTypeError: it
\* does not wait for the flow, adds no record and submits nothing, and no
\* flow of such a type is ever in the table.
C9_ResumeOtherType ==
  /\ [](\A f \in DOMAIN launched_flows :
          remote[f].name \in {"ClientFileFinder", "ArtifactCollectorFlow",
                              "GetFile"})
  /\ [][\A f \in Flows :
          (/\ remote[f] # NoFlow
           /\ remote[f].name \notin {"ClientFileFinder",
                                     "ArtifactCollectorFlow", "GetFile"})
            => /\ ~(fgpc = "idle" /\ fgpc' = "resume_wait" /\ resume_id' = f)
               /\ (fgpc = "idle" /\ fgpc' = "resume_returned"
                     /\ resume_ret'.flow_id = f)
                    => /\ resume_ret'.result = "NotResumeableFlowTypeError"
                       /\ UNCHANGED <<keys, launched_flows, submits>>]_vars

\* ResumeFlow has raised the error for a TimelineFlow that has ended.
C9_Witness ==
  /\ fgpc = "resume_returned"
  /\ resume_ret.result = "NotResumeableFlowTypeError"
  /\ remote[resume_ret.flow_id].name = "TimelineFlow"
  /\ remote[resume_ret.flow_id].state = "TERMINATED"

C11_ArtifactClassification ==
  /\ [](\A f \in Flows :
          remote[f].name = "ArtifactCollectorFlow" =>
            /\ GetResumableFlowSyncDetails(Get(f)).is_synchronous
                 <=> remote[f].source_type \in
                       {"COMMAND", "GREP", "GRR_CLIENT_ACTION", "REGISTRY_KEY",
                        "REGISTRY_VALUE"}
            /\ ~GetResumableFlowSyncDetails(Get(f)).is_synchronous
                 <=> remote[f].source_type \in
                       {"PATH", "LIST_FILES", "ARTIFACT_FILES", "FILE"})
  /\ [][\A f \in Flows \ DOMAIN launched_flows :
          (/\ remote[f].name = "ArtifactCollectorFlow"
           /\ remote[f].source_type = "REGISTRY_KEY"
           /\ fgpc = "idle")
            => /\ ~(fgpc' = "resume_returned" /\ resume_ret'.flow_id = f)
               /\ f \notin DOMAIN launched_flows']_vars

\* C14 (as the specification states it): no synchronous operation of the
\* engine (FileInfo, CollectFiles, CollectArtifact, CollectTimeline, a
\* synchronous ResumeFlow) ends with the remote FlowFailedError raised to
\* its caller, and none of them changes the table of launched flows.
C14_FlowFailedCaught ==
  /\ [](/\ fgpc = "sync_returned" => sync.result # "FlowFailedError"
        /\ fgpc = "resume_returned" => resume_ret.result # "FlowFailedError")
  /\ [][/\ fgpc \in {"sync_wait", "resume_wait"} => keys' = keys
        /\ fgpc \in {"sync_wait", "resume_wait"}
             => DOMAIN launched_flows' = DOMAIN launched_flows]_vars

\* C12 (as the specification states it): when CollectFilesInBackground
\* or CollectArtifactInBackground returns, the flow it created is still
\* RUNNING, its id is the one new key of the table, stored with the handle
\* of that flow, the total of GetRunningFlowCount is one more, and the flow
\* is in the cache of the FlowMonitor under its id.
C12_LaunchRecordsAndRegisters ==
  [][(fgpc = "idle" /\ fgpc' = "idle" /\ keys' # keys)
       => LET f == keys'[Len(keys')]
          IN /\ keys' = Append(keys, f)
             /\ remote[f] = NoFlow
             /\ remote'[f].state = "RUNNING"
             /\ launched_flows'[f].flow.flow_id = f
             /\ launched_flows'[f].flow.name = remote'[f].name
             /\ launched_flows'[f].flow.state = "RUNNING"
             /\ RunningFlowCount'[2] = RunningFlowCount[2] + 1
             /\ f \in DOMAIN monitor_flows']_vars

\* C13: at every moment at most max_workers background tasks execute (the
\* pool of the program has 40 workers, the pool of the model MaxFlows - 1);
\* a submission made while every worker is busy is accepted and gets its
\* record in the table like any other, as a queued task; and, when the
\* running remote flows end, every submitted task is started and finishes.
C13_WorkerBound ==
  /\ [](Cardinality({f \in Tracked : Running(f)}) <= max_workers)
  /\ [][\A f \in Flows :
          submits'[f] # submits[f]
            => /\ submits'[f] = submits[f] + 1
               /\ f \in DOMAIN launched_flows'
               /\ \E i \in 1..Len(keys') : keys'[i] = f
               /\ launched_flows'[f].future = "PENDING"
               /\ launched_flows'[f].flow.flow_id = f]_vars
  /\ \A f \in Flows :
       (f \in Tracked /\ ~Done(f)) ~> (f \in Tracked /\ Done(f))

\* Every worker is busy and a further submitted task is queued.
C13_Witness ==
  /\ Cardinality({f \in Tracked : Running(f)}) = max_workers
  /\ \E f \in Tracked : launched_flows[f].future = "PENDING"

\* C15: for a flow that produced no results _ExportFlowResults fails with
\* InvalidRemotePathError and the archive of the flow is never fetched, so
\* nothing is extracted or moved under the local directory; inside a
\* background task the error ends up as the exception of the flow's record,
\* and the step leaves the foreground where it was.
C15_NoResultsNoArchive ==
  /\ [](\A f \in no_results :
          /\ f \notin fetched
          /\ (f \in Tracked /\ Done(f))
               => launched_flows[f].exception = "InvalidRemotePathError")
  /\ [][\A f \in no_results' \ no_results :
          IF f \in Tracked
            THEN /\ Running(f)
                 /\ launched_flows'[f].exception = "InvalidRemotePathError"
                 /\ UNCHANGED <<fgpc, sync, resume_ret, resume_id>>
            ELSE /\ sync.flow_id = f
                 /\ sync'.result = "InvalidRemotePathError"]_vars

\* A background task has ended on a flow without results while the
\* foreground was in the middle of a command.
C15_Witness ==
  /\ \E f \in no_results \cap Tracked : Done(f)
  /\ fgpc # "idle"

\* C16 (as the specification states it): when _ExportFlowResults has
\* returned, every entry {client_id}_flow_{name}_{flow_id}/{client_id}/fs/
\* {mode_dir}/P of the archive has its file at local_path/P, neither marker
\* is under local_path, and local_path has no directory named after the
\* flow; for a client of any operating system and for both directories,
\* 'os' and the raw one, that the server may use.
C16_UnpackedInPlace ==
  export_pc = "done" =>
    /\ \A i \in 1..Len(infolist) :
         \A mode_dir \in ModeDirs : \A P \in RemotePaths :
           infolist[i] = Entry(mode_dir, P) => P \in files
    /\ \A name \in files :
         name[Len(name)] \notin {"MANIFEST", "client_info.yaml"}
    /\ <<zip_root_dir>> \notin dirs

\* C17: a ClientFileFinder or ArtifactCollectorFlow flow is created with the
\* size cap that is configured at that moment, the size of the last
\* SetMaxFilesize (of the constructor before the first one): that size when
\* it is not 0, no cap when it is 0; and no step, SetMaxFilesize included,
\* changes the arguments of a flow created before.
C17_CapAtCreation ==
  [][/\ Len(flow_args') >= Len(flow_args)
     /\ SubSeq(flow_args', 1, Len(flow_args)) = flow_args
     /\ Len(flow_args') > Len(flow_args)
          => /\ Len(flow_args') = Len(flow_args) + 1
             /\ max_collect_size # 0
                  => flow_args'[Len(flow_args')].max_size = {max_collect_size}
             /\ max_collect_size = 0
                  => flow_args'[Len(flow_args')].max_size = {}]_vars

\* A flow created without a cap, a later one created with a cap, and a
\* configured size that has changed since.
C17_Witness ==
  /\ Len(flow_args) >= 2
  /\ flow_args[1].max_size = {}
  /\ flow_args[2].max_size # {}
  /\ {max_collect_size} # flow_args[2].max_size
  /\ max_collect_size # 0

\* C18: parsing a feed a second time, with the same timeline_time and with
\* nothing done in between, changes nothing: the objects of the tree (names,
\* kinds, stats, timeline_time and children) and the working directory are
\* after the second ParseTimelineFlow what they were after the first, for
\* every feed and every time, from every tree.
C18_ParseIdempotent ==
  \A timeline_data \in Feeds : \A timeline_time \in Times :
    \A once \in {ParseTimelineFlowResult(heap, root, pwd, timeline_data,
                                         timeline_time)} :
      \A twice \in {ParseTimelineFlowResult(once.heap, once.root, once.pwd,
                                            timeline_data, timeline_time)} :
        /\ twice.heap = once.heap
        /\ twice.root = once.root
        /\ twice.pwd = once.pwd

\* A feed has been parsed into a tree with a placeholder directory that has
\* a child, and the working directory is not the root.
C18_Witness ==
  /\ fs_op.op = "ParseTimelineFlow"
  /\ fs_op.ret = "None"
  /\ pwd # root
  /\ \E n \in 1..Len(heap) :
       /\ heap[n].dir
       /\ heap[n].stats = DefaultRow
       /\ n # root
       /\ DOMAIN heap[n].children # {}

\* C19 (as the specification states it): when ClearPath(P, t) has returned
\* for a path P that resolved, whatever feed of rows at or below P is parsed
\* next with the same t, every path below P that resolves afterwards is the
\* path of a row of the feed or of an ancestor of one: nothing that was
\* below P before is left.
C19_NoStaleChild ==
  (fs_op.op = "ClearPath" /\ fs_op.found /\ fs_op.ret = "None") =>
    \A timeline_data \in Feeds :
      (\A i \in 1..Len(timeline_data) :
         /\ Len(timeline_data[i].name) >= Len(fs_op.path)
         /\ SubSeq(timeline_data[i].name, 1, Len(fs_op.path)) = fs_op.path)
      => \A parsed \in {ParseTimelineFlowResult(heap, root, pwd,
                                                timeline_data, fs_op.t)} :
           \A path \in FsPaths :
             (/\ Len(path) > Len(fs_op.path)
              /\ SubSeq(path, 1, Len(fs_op.path)) = fs_op.path
              /\ ResolveRemotePathToEmulatedFS(parsed.heap, parsed.root,
                                               path).err = "None")
             => \E i \in 1..Len(timeline_data) :
                  /\ Len(timeline_data[i].name) >= Len(path)
                  /\ SubSeq(timeline_data[i].name, 1, Len(path)) = path

\* C20 (as the specification states it): RemotePathExists(path, dirs_only)
\* returns True or False for every path in every tree, and raises nothing:
\* True exactly if the path resolves (to a directory, with dirs_only), False
\* also when a component on the way is a file.
C20_ExistsNeverRaises ==
  \A path \in FsPaths \cup {RootPath} : \A dirs_only \in BOOLEAN :
    \A exists \in {RemotePathExists(heap, root, path, dirs_only)} :
      \A path_entry \in {ResolveRemotePathToEmulatedFS(heap, root, path)} :
        /\ exists \in {"True", "False"}
        /\ exists = "True" <=>
             /\ path_entry.err = "None"
             /\ dirs_only => heap[path_entry.node].dir

\* C21 (as the specification states it): a normalised path resolves exactly
\* if it is the root, the path of a row that was parsed and not invalidated
\* since, or an ancestor of one, and every other path fails with
\* InvalidRemotePathError. Step by step: after a feed has been parsed the
\* paths that resolve are the ones that resolved before, the root, and the
\* paths of the rows of the feed and of their ancestors; after ClearPath(P)
\* of a path P that resolved they are the ones that resolved before and are
\* neither P nor below it.
C21_ResolvesIffPresent ==
  /\ \A timeline_data \in Feeds : \A timeline_time \in Times :
       \A parsed \in {ParseTimelineFlowResult(heap, root, pwd, timeline_data,
                                              timeline_time)} :
         parsed.err = "None" =>
           \A path \in Paths :
             \A norm \in {NormaliseFSPath(parsed.heap, parsed.pwd, path)} :
               \A now \in {ResolveRemotePathToEmulatedFS(
                             parsed.heap, parsed.root, norm)} :
                 /\ now.err \in {"None", "InvalidRemotePathError"}
                 /\ now.err = "None" <=>
                      \/ norm = RootPath
                      \/ ResolveRemotePathToEmulatedFS(heap, root, norm).err
                           = "None"
                      \/ \E i \in 1..Len(timeline_data) :
                           /\ Len(timeline_data[i].name) >= Len(norm)
                           /\ SubSeq(timeline_data[i].name, 1, Len(norm))
                                = norm
  /\ \A remote_path \in FsPaths : \A timeline_time \in Times :
       \A cleared \in {ClearPathResult(heap, root, pwd, remote_path,
                                       timeline_time)} :
         (/\ cleared.err = "None"
          /\ ResolveRemotePathToEmulatedFS(heap, root, remote_path).err
               = "None") =>
           \A path \in Paths :
             \A norm \in {NormaliseFSPath(cleared.heap, cleared.pwd, path)} :
               \A now \in {ResolveRemotePathToEmulatedFS(
                             cleared.heap, cleared.root, norm)} :
                 /\ now.err \in {"None", "InvalidRemotePathError"}
                 /\ now.err = "None" <=>
                      /\ ResolveRemotePathToEmulatedFS(heap, root, norm).err
                           = "None"
                      /\ ~ /\ Len(norm) >= Len(remote_path)
                           /\ SubSeq(norm, 1, Len(remote_path)) = remote_path

\* C22 (as the specification states it): Cd(path) fails with IsAFileError
\* when the normalised path resolves to a file and with
\* InvalidRemotePathError when it does not resolve, and a Cd that fails
\* leaves the tree and the working directory, its path and its
\* timeline_time, as they were.
C22_FailedCdChangesNothing ==
  [][fs_op'.op = "Cd" =>
       \A path_entry \in {ResolveRemotePathToEmulatedFS(heap, root,
                                                        fs_op'.path)} :
         /\ (path_entry.err = "None" /\ ~heap[path_entry.node].dir)
              => fs_op'.ret = "IsAFileError"
         /\ path_entry.err # "None"
              => fs_op'.ret = "InvalidRemotePathError"
         /\ fs_op'.ret # "None"
              => /\ heap' = heap
                 /\ root' = root
                 /\ pwd' = pwd
                 /\ GetPWD(heap', pwd') = GetPWD(heap, pwd)
                 /\ heap'[pwd'].timeline_time = heap[pwd].timeline_time]_vars

\* C23 (as the specification states it): when Cd(path) has succeeded,
\* GetPWD() is the path that NormaliseFSPath(path) gave before the call,
\* whether the directory got its stats from a row or is a placeholder made
\* for a row below it; Cd of '..' at the root leaves GetPWD() at '/'.
C23_PwdIsNormalisedPath ==
  [][(fs_op'.op = "Cd" /\ fs_op'.ret = "None")
       => GetPWD(heap', pwd') = fs_op'.path]_vars

\* C24 (as the specification states it): __lt__ of _LSEntry is a strict
\* order that puts a directory before every entry that is none and orders
\* two entries of the same kind by name; Ls with the default arguments
\* returns the entries in that order, with sortkey 'S' in the order of the
\* sizes and with 't' in the order of the mtimes; and what Ls returns with
\* ascending=False is what it returns with ascending=True, turned around.
C24_LsOrder ==
  /\ \A self, other \in LSEntries :
       /\ ~LSEntryLt(self, self)
       /\ LSEntryLt(self, other) => ~LSEntryLt(other, self)
       /\ (self.mode_as_string = "d" /\ other.mode_as_string # "d")
            => LSEntryLt(self, other)
       /\ self.mode_as_string = other.mode_as_string
            => (LSEntryLt(self, other) <=> NameLt(self.name, other.name))
  /\ ls_ret # <<>> =>
       /\ (sortkey = "None" /\ ascending) =>
            \A i, j \in 1..Len(ls_ret) :
              i < j => LSEntryLt(ls_ret[i], ls_ret[j])
       /\ (sortkey = "S" /\ ascending) =>
            \A i, j \in 1..Len(ls_ret) :
              i < j => ls_ret[i].size <= ls_ret[j].size
       /\ (sortkey = "t" /\ ascending) =>
            \A i, j \in 1..Len(ls_ret) :
              i < j => ls_ret[i].mtime <= ls_ret[j].mtime
       /\ ~ascending => ls_ret = Reversed(Sorted(entries, sortkey, FALSE))

\* C25 (as the specification states it): when ParseTimelineFlow has
\* returned, GetPWD() is the path of a directory of the tree: it is what it
\* was before the call if that path still resolves to a directory, and the
\* working directory is the root if it does not.
C25_PwdResolvesAfterParse ==
  [][(fs_op'.op = "ParseTimelineFlow" /\ fs_op'.ret = "None") =>
       /\ RemotePathExists(heap', root', GetPWD(heap', pwd'), TRUE) = "True"
       /\ IF RemotePathExists(heap', root', GetPWD(heap, pwd), TRUE) = "True"
            THEN GetPWD(heap', pwd') = GetPWD(heap, pwd)
            ELSE pwd' = root']_vars

\* C26 (as the specification states it): when ClearPath(P, t) has returned,
\* whatever feed of rows at or below P is parsed next with the same t, every
\* directory at or below P has timeline_time t afterwards, every directory
\* elsewhere has the timeline_time it had, and GetTimelineTime() is t if the
\* working directory is P or below P, for P the root and for P an ancestor
\* of the working directory as well.
C26_FreshnessAfterRefresh ==
  (fs_op.op = "ClearPath" /\ fs_op.ret = "None") =>
    \A timeline_data \in Feeds :
      (\A i \in 1..Len(timeline_data) :
         /\ Len(timeline_data[i].name) >= Len(fs_op.path)
         /\ SubSeq(timeline_data[i].name, 1, Len(fs_op.path)) = fs_op.path)
      => \A parsed \in {ParseTimelineFlowResult(heap, root, pwd,
                                                timeline_data, fs_op.t)} :
           parsed.err = "None" =>
             /\ \A path \in FsPaths \cup {RootPath} :
                  \A now \in {ResolveRemotePathToEmulatedFS(
                                parsed.heap, parsed.root, path)} :
                    (now.err = "None" /\ parsed.heap[now.node].dir) =>
                      IF /\ Len(path) >= Len(fs_op.path)
                         /\ SubSeq(path, 1, Len(fs_op.path)) = fs_op.path
                        THEN parsed.heap[now.node].timeline_time = fs_op.t
                        ELSE \A was \in {ResolveRemotePathToEmulatedFS(
                                           heap, root, path)} :
                               (was.err = "None" /\ heap[was.node].dir) =>
                                 parsed.heap[now.node].timeline_time
                                   = heap[was.node].timeline_time
             /\ \A cwd \in {GetPWD(parsed.heap, parsed.pwd)} :
                  (/\ Len(cwd) >= Len(fs_op.path)
                   /\ SubSeq(cwd, 1, Len(fs_op.path)) = fs_op.path)
                  => parsed.heap[parsed.pwd].timeline_time = fs_op.t

\* C27 (as the specification states it): for each flow id, once a read of
\* the cache of the FlowMonitor (GetFlow, GetFlowsInfoList) has shown the
\* flow in a final state, TERMINATED or ERROR, no later read shows it
\* RUNNING, however the bulk fetch and the refresh of the monitor, GetFlow and
\* TrackFlow with the handle from the creation of the flow interleave.
C27_ObservedStateMonotonic ==
  [][\A f \in Flows :
       observed[f] \in {"TERMINATED", "ERROR"} => observed'[f] # "RUNNING"]_vars

\* C28 (as the specification states it): once StartMonitor() has started
\* it, the thread of _Monitor never ends: whatever TrackFlow and GetFlow
\* calls, calls that put a new flow id into the cache included, interleave
\* with its loop over the cached ids, the loop does not fail, and so goes on
\* to its next bulk fetch.
C28_MonitorKeepsRunning ==
  [][mon_pc # "off" => mon_pc' \notin {"off", "dead"}]_vars

\* C29: the lock of a monitor is never held by its polling thread while a
\* remote fetch of that thread (the client's Get(), ListFlows()) is in
\* progress, so that GetLastSeen() and GetFlowsInfoList() wait at most for
\* a local update of the cache.
C29_NoRemoteFetchUnderLock ==
  /\ ~(seen_mutex = "monitor" /\ seen_pc = "fetch")
  /\ ~(mutex = "monitor" /\ mon_pc = "fetch")

\* C30: once the LastSeenMonitor has been started, a call of GetLastSeen()
\* that returns does not raise and returns the value the last completed
\* fetch wrote, whether or not the first fetch has been made.
C30_GetLastSeenReturnsCached ==
  [][seen_pc # "off" /\ seen_call = "lock" /\ seen_call' = "idle"
       => /\ seen_ret'.raised = "None"
          /\ seen_ret'.value = last_seen
          /\ last_seen # NoAttribute]_vars

\* C31: after a parse that returned, what the root leads to is a tree, no
\* object being found at two paths, and the object found at a path is a
\* placeholder directory with the stats of _TimelineRow() or carries the
\* stats of the row of that path, also when a missing intermediate
\* component has the name of the last one (row /a/a while /a is absent).
C31_ParsedTreeWellFormed ==
  fs_op.op = "ParseTimelineFlow" /\ fs_op.ret = "None" =>
    \A path \in FsPaths \cup {RootPath} :
      \A found \in {ResolveRemotePathToEmulatedFS(heap, root, path)} :
        found.err = "None" =>
          /\ \/ heap[found.node].stats = DefaultRow /\ heap[found.node].dir
             \/ heap[found.node].stats.name = path
          /\ \A other \in (FsPaths \cup {RootPath}) \ {path} :
               ResolveRemotePathToEmulatedFS(heap, root, other).node
                 # found.node

C33_ClearPathOnlyBelow ==
  [][(fs_op'.op = "ClearPath" /\ fs_op'.path # RootPath) =>
       /\ \A path \in FsPaths \cup {RootPath} :
            \A was \in {ResolveRemotePathToEmulatedFS(heap, root, path)} :
              \A now \in {ResolveRemotePathToEmulatedFS(heap', root', path)} :
                \A cleared \in {IF path = Dirname(fs_op'.path)
                                  THEN {fs_op'.path[Len(fs_op'.path)]}
                                  ELSE {}} :
                  (/\ was.err = "None"
                   /\ ~(/\ Len(path) >= Len(fs_op'.path)
                        /\ SubSeq(path, 1, Len(fs_op'.path)) = fs_op'.path))
                  => /\ now.err = "None"
                     /\ heap'[now.node].dir = heap[was.node].dir
                     /\ heap'[now.node].stats = heap[was.node].stats
                     /\ heap'[now.node].timeline_time
                          = heap[was.node].timeline_time
                     /\ DOMAIN heap'[now.node].children \ cleared
                          = DOMAIN heap[was.node].children \ cleared
       /\ ResolveRemotePathToEmulatedFS(heap, root, fs_op'.path).err # "None"
            => /\ fs_op'.ret = "None"
               /\ heap' = heap
               /\ root' = root
               /\ pwd' = pwd]_vars

\* C34: a refresh collects the timeline, then calls ClearPath(path), then
\* ParseTimelineFlow: while the collection is in progress, and when it
\* fails or is interrupted, the tree and the working directory stay as
\* they are; ClearPath is called only in a refresh whose collection has
\* returned, with the path of the refresh, and the step after a ClearPath
\* that returned is the ParseTimelineFlow of that refresh, with the same
\* timeline_time.
C34_RefreshOrder ==
  [][/\ refresh.pc = "collect" =>
          /\ UNCHANGED <<heap, root, pwd>>
          /\ refresh'.pc \in {"clear", "idle"}
          /\ refresh'.pc = "clear" <=> refresh'.collected = "TERMINATED"
     /\ (/\ fs_op'.op = "ClearPath"
         /\ <<heap, root, pwd, fs_op>>' # <<heap, root, pwd, fs_op>>) =>
          /\ refresh.pc = "clear"
          /\ refresh.collected = "TERMINATED"
     /\ refresh.pc = "clear" =>
          /\ fs_op'.op = "ClearPath"
          /\ fs_op'.path = refresh.path
          /\ refresh'.pc = IF fs_op'.ret = "None" THEN "parse" ELSE "idle"
     /\ refresh.pc = "parse" =>
          /\ fs_op.op = "ClearPath"
          /\ fs_op'.op = "ParseTimelineFlow"
          /\ fs_op'.t = fs_op.t]_vars

\* A refresh of /a has collected a timeline with results, has called
\* ClearPath for /a and has parsed a feed of two rows into the tree.
C34_Witness ==
  /\ refresh.pc = "cd"
  /\ refresh.path = <<"a">>
  /\ refresh.collected = "TERMINATED"
  /\ refresh.stamp = last_timeline_time
  /\ fs_op.op = "ParseTimelineFlow"
  /\ fs_op.ret = "None"
  /\ Len(heap) >= 3

\* C39: when a call of CollectTimeline has returned, last_timeline_time is
\* the timestamp of the first result of the flow the call waited for, and
\* where the flow has no result it is not the value an earlier call left.
C39_StampOfLatestCall ==
  [][(refresh.pc = "collect" /\ refresh'.pc = "clear") =>
       IF refresh'.stamp # 0
         THEN last_timeline_time' = refresh'.stamp
         ELSE last_timeline_time # 0 =>
                last_timeline_time' # last_timeline_time]_vars

\* C35: the bulk fetch of the FlowMonitor only appends: every flow cached
\* before _SingleFetch is cached after it with the same handle, the keys
\* keep their order, and the keys added are the flows of the server that
\* were not cached.
C35_BulkFetchAppendOnly ==
  [][(mon_pc = "fetch" /\ mon_pc' = "for") =>
       /\ \A f \in DOMAIN monitor_flows :
            /\ f \in DOMAIN monitor_flows'
            /\ monitor_flows'[f] = monitor_flows[f]
       /\ SubSeq(flow_keys', 1, Len(flow_keys)) = flow_keys
       /\ \A f \in DOMAIN monitor_flows' \ DOMAIN monitor_flows :
            /\ remote[f] # NoFlow
            /\ monitor_flows'[f] = Get(f)
       /\ \A f \in Flows :
            remote[f] # NoFlow => f \in DOMAIN monitor_flows']_vars

\* A bulk fetch has just returned, in a later pass of the loop than the
\* first: the pass before went through one cached flow, which is the first
\* key still and is RUNNING in the cache while it has ended on the server,
\* and the cache holds a second flow.
C35_Witness ==
  /\ mon_pc = "for"
  /\ it_used = 1
  /\ Len(flow_keys) = 2
  /\ monitor_flows[flow_keys[1]].state = "RUNNING"
  /\ remote[flow_keys[1]].state \in {"TERMINATED", "ERROR"}

\* C36: the refresh of one flow, in the loop of the monitor and in GetFlow,
\* calls Get() for a flow and replaces its cached handle only while the
\* flow is not cached or its cached handle is RUNNING, and does call it
\* then: a flow whose cached handle is TERMINATED or ERROR is not fetched
\* again; and GetFlow returns the handle of a flow that is cached by then.
C36_RefreshOnlyWhenStale ==
  [][/\ (mon_pc = "lock" /\ mon_pc' = "get") => Stale(mon_flow)
     /\ (call.pc = "lock" /\ call'.pc = "get") => Stale(call.flow_id)
     /\ (mon_pc = "get" /\ mon_pc' # "get") =>
          \A f \in DOMAIN monitor_flows :
            ~Stale(f) => monitor_flows'[f] = monitor_flows[f]
     /\ (call.pc = "get" /\ call'.pc # "get") =>
          \A f \in DOMAIN monitor_flows :
            ~Stale(f) => monitor_flows'[f] = monitor_flows[f]
     /\ (mon_pc = "check" /\ mon_pc' # "check") =>
          (mon_pc' = "lock" <=> Stale(mon_flow))
     /\ (call.op = "GetFlow" /\ call.pc = "return" /\ call' = NoCall) =>
          call.flow_id \in DOMAIN monitor_flows]_vars

\* C37: a thread that reads or writes the cache of the FlowMonitor holds
\* its lock: the monitor thread holds it where its loop takes the next
\* cached id and where its refresh of one flow tests whether the flow is
\* cached and RUNNING, and the foreground is not inside a locked update of
\* the cache at such a moment.
C37_CacheAccessUnderLock ==
  mon_pc \in {"next", "check"} =>
    /\ mutex = "monitor"
    /\ ~(call.op = "GetFlow" /\ call.pc = "get")

\* C38: FileInfo creates the GetFile flow of the Zone.Identifier stream
\* only when it is asked to, on a Windows client, for a path without '*',
\* and creates it and the hash flow before it waits for either; when the
\* stream flow has failed the hash flow is waited for all the same and
\* FileInfo returns its lines; when the hash flow has failed FileInfo
\* returns '' however the stream flow has ended.
C38_FileInfoFlows ==
  [][/\ (fgpc = "idle" /\ sync'.op = "FileInfo") =>
          /\ remote[sync'.hash_id] = NoFlow
          /\ remote'[sync'.hash_id].action = "HASH"
          /\ remote'[sync'.hash_id].state = "RUNNING"
          /\ sync'.result = ""
          /\ sync'.ads_id # 0 <=>
               /\ sync'.collect_ads
               /\ client_os = "Windows"
               /\ ~sync'.wildcard
          /\ sync'.ads_id # 0 =>
               /\ remote[sync'.ads_id] = NoFlow
               /\ remote'[sync'.ads_id].name = "GetFile"
               /\ remote'[sync'.ads_id].state = "RUNNING"
               /\ sync'.flow_id = sync'.ads_id
     /\ (/\ sync.op = "FileInfo"
         /\ fgpc = "sync_wait"
         /\ sync.flow_id # sync.hash_id
         /\ sync' # sync
         /\ sync' # NoSync) =>
          /\ remote[sync.ads_id].state \in {"TERMINATED", "ERROR"}
          /\ fgpc' = "sync_wait"
          /\ sync'.flow_id = sync.hash_id
     /\ (sync.op = "FileInfo" /\ fgpc = "sync_wait"
         /\ fgpc' = "sync_returned") =>
          /\ sync.flow_id = sync.hash_id
          /\ sync'.result = IF remote[sync.hash_id].state = "ERROR"
                              THEN "''" ELSE "lines"]_vars

\* FileInfo has returned the lines of the hash flow after the flow of the
\* stream, which it created on a Windows client, has failed.
C38_Witness ==
  /\ fgpc = "sync_returned"
  /\ sync.op = "FileInfo"
  /\ sync.ads_id # 0
  /\ remote[sync.ads_id].state = "ERROR"
  /\ remote[sync.hash_id].state = "TERMINATED"
  /\ sync.result = "lines"

\* C40: no public operation of the FlowMonitor leaves the lock held when
\* control is back with its caller: while the consumer of GetFlowsInfoList
\* holds a flow it was yielded, or has left the iteration early, the lock
\* is free (and GetFlow, TrackFlow and the polling loop can take it).
C40_LockFreeBetweenYields ==
  generator.pc \in {"suspended", "abandoned"} => mutex = "free"

=============================================================================
